---- MODULE Spec2Model ----
(***************************************************************************)
(* MyNotes: the note store (table notes, FTS5 shadow table notes_fts kept  *)
(* in step by the triggers notes_ai / notes_ad / notes_au) and the three   *)
(* note routes of the express server that read and write it.               *)
(*                                                                         *)
(* Text is a sequence of one-character strings.  SQLite itself is not part *)
(* of the repository; its behaviour (rowid assignment, triggers, the FTS5  *)
(* query syntax, the unicode61 tokenizer, phrase and prefix matching) is   *)
(* modelled as SQLite 3.40 behaves on the statements the repository runs.  *)
(*                                                                         *)
(* Beside them, the AI adapter of server/ai.js: callAI with its primary    *)
(* and secondary provider, the log it writes without waiting for it, the   *)
(* four operations of aiService and their routes.  The providers, the file *)
(* system and the promise machinery of Node are the environment: every     *)
(* answer and failure they can give is an input.                           *)
(***************************************************************************)
EXTENDS Integers, Sequences, FiniteSets, TLC

(* ---------------------------- bounds ----------------------------------- *)

\* number of ids uuidv4() hands out in a behaviour
MaxUuid == 1
\* last value of the server clock
MaxClock == 1
\* number of callAI invocations in a behaviour
MaxCalls == 2
\* longest chat history a request carries
MaxHistory == 11

\* the save requests sent at the same time
MaxSaves == 2

\* the registrations attempted
MaxRegistrations == 3

\* the API calls of the client in flight together
MaxPending == 1

\* the list fetches the client issues
MaxFetches == 3

(* ---------------------------- JS values -------------------------------- *)

\* the JS value undefined (a field absent from the request)
Undefined == <<"undefined">>

QUOTE == "\""
BACKSLASH == "\\"
\* the character U+0000
NUL == "NUL"

\* JS truthiness of a string-or-undefined value: '' and undefined are falsy
Truthy(v) == v # Undefined /\ v # <<>>

\* a || b
OrElse(a, b) == IF Truthy(a) THEN a ELSE b

Digit(i) == <<"0", "1", "2", "3", "4", "5", "6", "7", "8", "9">>[i + 1]

\* the i-th id uuidv4() returns: hex digits, different for every call
uuidv4(i) == <<"c", Digit(i)>>

\* the ids of the two registered users (uuidv4 values made at registration)
UserIds == {<<"d", "1">>, <<"d", "2">>}

\* category || '默认'
DefaultCategory == <<"默", "认">>

(* ---------------------------- JSON ------------------------------------- *)

RECURSIVE EscapeJsonQuotesOnly(_)
\* EscapeJson that leaves a backslash as it is
EscapeJsonQuotesOnly(s) ==
    IF s = <<>> THEN <<>>
    ELSE IF Head(s) = QUOTE
         THEN <<BACKSLASH, Head(s)>> \o EscapeJsonQuotesOnly(Tail(s))
         ELSE <<Head(s)>> \o EscapeJsonQuotesOnly(Tail(s))

RECURSIVE EscapeJson(_)
\* JSON.stringify of the characters of one string (without the quotes)
EscapeJson(s) ==
    IF s = <<>> THEN <<>>
    ELSE IF Head(s) = QUOTE \/ Head(s) = BACKSLASH
         THEN <<BACKSLASH, Head(s)>> \o EscapeJson(Tail(s))
         ELSE <<Head(s)>> \o EscapeJson(Tail(s))

\* JSON.stringify(tags || []) for an array of strings
JSONstringify(arr) ==
  LET
      RECURSIVE StringifyItems(_)
      StringifyItems(items) ==
          IF items = <<>> THEN <<>>
          ELSE <<QUOTE>> \o EscapeJson(Head(items)) \o <<QUOTE>>
               \o (IF Len(items) > 1 THEN <<",">> ELSE <<>>)
               \o StringifyItems(Tail(items))
  IN  <<"[">> \o StringifyItems(arr) \o <<"]">>

\* JSON.parse(n.tags || '[]')
JSONparse(s) ==
  LET
      RECURSIVE ParseItems(_, _, _, _)
      \* JSON.parse of the text after '[': inStr is TRUE inside a string literal,
      \* cur the characters of the string read so far, acc the strings finished
      ParseItems(json, inStr, cur, acc) ==
          IF json = <<>> THEN acc
          ELSE IF inStr
               THEN IF Head(json) = BACKSLASH /\ Len(json) > 1
                    THEN ParseItems(Tail(Tail(json)), TRUE, Append(cur, json[2]), acc)
                    ELSE IF Head(json) = QUOTE
                         THEN ParseItems(Tail(json), FALSE, <<>>, Append(acc, cur))
                         ELSE ParseItems(Tail(json), TRUE, Append(cur, Head(json)), acc)
               ELSE IF Head(json) = QUOTE
                    THEN ParseItems(Tail(json), TRUE, <<>>, acc)
                    ELSE ParseItems(Tail(json), FALSE, <<>>, acc)
  IN  ParseItems(Tail(OrElse(s, <<"[", "]">>)), FALSE, <<>>, <<>>)

(* ---------------------------- FTS5 ------------------------------------- *)

\* unicode61: letters and digits make tokens, every other character separates
TokenChars == {"a", "b", "c", "d", "默", "认",
               "0", "1", "2", "3", "4", "5", "6", "7", "8", "9"}

\* the tokens of a column value or of a phrase
Tokenize(s) ==
  LET
      RECURSIVE Tokens(_, _, _)
      Tokens(str, cur, acc) ==
          IF str = <<>> THEN (IF cur = <<>> THEN acc ELSE Append(acc, cur))
          ELSE IF Head(str) \in TokenChars
               THEN Tokens(Tail(str), Append(cur, Head(str)), acc)
               ELSE Tokens(Tail(str), <<>>, IF cur = <<>> THEN acc ELSE Append(acc, cur))
  IN  Tokens(s, <<>>, <<>>)

RECURSIVE ScanString(_, _)
\* the FTS5 string literal after its opening quote: "" stands for one quote,
\* a single quote closes the literal
ScanString(s, text) ==
    IF s = <<>> THEN [closed |-> FALSE, text |-> text, rest |-> <<>>]
    ELSE IF Head(s) = QUOTE
         THEN IF Len(s) > 1 /\ s[2] = QUOTE
              THEN ScanString(Tail(Tail(s)), Append(text, QUOTE))
              ELSE [closed |-> TRUE, text |-> text, rest |-> Tail(s)]
         ELSE ScanString(Tail(s), Append(text, Head(s)))

\* what FTS5 makes of the right-hand side of MATCH
Fts5Parse(term) ==
  LET
      RECURSIVE CString(_)
      \* FTS5 reads the MATCH argument as a zero-terminated string
      CString(s) ==
          IF s = <<>> \/ Head(s) = NUL THEN <<>> ELSE <<Head(s)>> \o CString(Tail(s))

      RECURSIVE Fts5Phrases(_, _)
      \* the FTS5 query grammar for strings, barewords and the prefix marker '*';
      \* phrases one after the other are joined by AND
      Fts5Phrases(s, acc) ==
        LET
            Fts5SyntaxError == [ok |-> FALSE, phrases |-> <<>>]

            RECURSIVE ScanBareword(_, _)
            ScanBareword(str, text) ==
                IF str # <<>> /\ Head(str) \in TokenChars
                THEN ScanBareword(Tail(str), Append(text, Head(str)))
                ELSE [closed |-> TRUE, text |-> text, rest |-> str]
        IN
          IF s = <<>> THEN [ok |-> TRUE, phrases |-> acc]
          ELSE IF Head(s) = " " THEN Fts5Phrases(Tail(s), acc)
          ELSE IF Head(s) = QUOTE \/ Head(s) \in TokenChars
               THEN LET lit == IF Head(s) = QUOTE THEN ScanString(Tail(s), <<>>)
                               ELSE ScanBareword(s, <<>>)
                        star == lit.rest # <<>> /\ Head(lit.rest) = "*"
                    IN  IF ~lit.closed THEN Fts5SyntaxError
                        ELSE Fts5Phrases(IF star THEN Tail(lit.rest) ELSE lit.rest,
                                         Append(acc, [text |-> lit.text, prefix |-> star]))
          ELSE Fts5SyntaxError
  IN  Fts5Phrases(CString(term), <<>>)

\* the positions of column tokens col at which the phrase toks starts
PhraseHits(col, toks, prefix) ==
  LET
      IsPrefix(p, t) == Len(p) <= Len(t) /\ SubSeq(t, 1, Len(p)) = p
  IN
    {p \in 1..(Len(col) - Len(toks) + 1) :
        \A j \in 1..Len(toks) :
            IF j = Len(toks) /\ prefix THEN IsPrefix(toks[j], col[p + j - 1])
            ELSE col[p + j - 1] = toks[j]}

\* number of places in row f where the phrase occurs; a phrase without
\* tokens occurs nowhere
PhraseCount(f, phrase) ==
  LET
      \* the columns of notes_fts, all four of them indexed
      FtsColumns(row) == <<row.id, row.user_id, row.title, row.content>>
  IN
    LET toks == Tokenize(phrase.text)
        hits(c) == IF toks = <<>> THEN 0
                   ELSE Cardinality(PhraseHits(Tokenize(FtsColumns(f)[c]), toks, phrase.prefix))
    IN  hits(1) + hits(2) + hits(3) + hits(4)

\* f.notes_fts MATCH term, for a term that parses
Fts5Match(f, parsed) ==
    /\ parsed.phrases # <<>>
    /\ \A k \in 1..Len(parsed.phrases) : PhraseCount(f, parsed.phrases[k]) > 0

\* f.rank: smaller is more relevant.  bm25 is abstracted to the number of
\* occurrences of the query's phrases in the row.
Fts5Rank(f, parsed) ==
  LET
      RECURSIVE SumCounts(_, _, _)
      SumCounts(row, phrases, k) ==
          IF k > Len(phrases) THEN 0
          ELSE PhraseCount(row, phrases[k]) + SumCounts(row, phrases, k + 1)
  IN  0 - SumCounts(f, parsed.phrases, 1)

(* ---------------------------- state ------------------------------------ *)

VARIABLES
    notes,      \* table notes: a set of rows
    notes_fts,  \* virtual table notes_fts: a set of rows
    clock,      \* the server's clock, new Date()
    uuids,      \* number of ids uuidv4() has returned
    up,         \* TRUE while the server process runs
    req,        \* the request handled last
    res,        \* the response sent to it
    selected,   \* the rows the last handler's SELECT returned, in order
    deleted,    \* history: the ids DELETE /api/notes/:id has removed
    aiReq,      \* the aiService operation run last, with its arguments
    call,       \* what the callAI invocation of that operation did
    answer,     \* what the operation gave its route: a value or an error
    ai_log,     \* LOG_FILE: the entries appended so far
    writes,     \* the writeLog promises not settled yet
    rejections, \* the promise rejections nothing handled
    calls,      \* number of callAI invocations so far
    users,      \* table users: a set of rows
    inflight,   \* the requests sent and not answered, the responses not applied
    arrived,    \* history: the save requests in the order the handler ran them
    token,      \* localStorage notes_app_token
    caught,     \* the error the client's last API call threw, if any
    cnotes,     \* App state notes: the list the client displays
    activeNoteId,           \* App state activeNoteId
    lastSavedContentRef,    \* lastSavedContentRef.current
    lastSavedTagsRef,       \* lastSavedTagsRef.current
    timers,     \* the autosave timeouts set and neither fired nor cleared
    searchTerm, \* App state searchTerm
    debouncedSearchTerm,    \* App state debouncedSearchTerm
    handlers,   \* the debounce timeouts set and neither fired nor cleared
    loading,    \* App state loading
    fetches,    \* history: number of list fetches issued
    shown       \* history: the number of the fetch whose response is displayed

\* the state of the note store and its routes
noteVars == <<notes, notes_fts, clock, uuids, up, req, res, selected, deleted>>

\* the state of the AI adapter, which the note routes never touch
aiVars == <<aiReq, call, answer, ai_log, writes, rejections, calls>>

\* the accounts
authVars == <<users>>

\* the messages between the client and the server
netVars == <<inflight, arrived>>

\* the state of the client
clientVars == <<token, caught, cnotes, activeNoteId, lastSavedContentRef,
                lastSavedTagsRef, timers, searchTerm, debouncedSearchTerm,
                handlers, loading, fetches, shown>>

vars == <<notes, notes_fts, clock, uuids, up, req, res, selected, deleted,
          aiReq, call, answer, ai_log, writes, rejections, calls,
          users, inflight, arrived,
          token, caught, cnotes, activeNoteId, lastSavedContentRef,
          lastSavedTagsRef, timers, searchTerm, debouncedSearchTerm,
          handlers, loading, fetches, shown>>

(* ---------------------------- SQLite ----------------------------------- *)

Max(S) == CHOOSE x \in S : \A y \in S : y <= x

FtsRow(n) == [rowid |-> n.rowid, id |-> n.id, user_id |-> n.user_id,
              title |-> n.title, content |-> n.content]

\* INSERT INTO notes_fts(rowid, ...): a rowid already in the table violates
\* its key and the statement fails
FtsInsert(F, row) ==
    IF \E f \in F : f.rowid = row.rowid
    THEN [ok |-> FALSE, fts |-> F]
    ELSE [ok |-> TRUE, fts |-> F \cup {row}]

\* DELETE FROM notes_fts WHERE rowid = ?
FtsDelete(F, rowid) == {f \in F : f.rowid # rowid}

\* notes_ai left out: the row is inserted without an index row
notes_ai_missing(F, new) == [ok |-> TRUE, fts |-> F]

\* trigger notes_ai AFTER INSERT ON notes
notes_ai(F, new) == FtsInsert(F, FtsRow(new))

\* notes_ad left out: the index row outlives its note
notes_ad_missing(F, old) == F

\* trigger notes_ad AFTER DELETE ON notes
notes_ad(F, old) == FtsDelete(F, old.rowid)

\* notes_au that leaves the index row as it was
notes_au_stale(F, old, new) == [ok |-> TRUE, fts |-> F]

\* trigger notes_au AFTER UPDATE ON notes
notes_au(F, old, new) == FtsInsert(FtsDelete(F, old.rowid), FtsRow(new))

\* a statement that fails leaves both tables as they were
SqlResult(ok, T, F, T0, F0, changes) ==
    IF ok THEN [ok |-> TRUE, notes |-> T, fts |-> F, changes |-> changes]
    ELSE [ok |-> FALSE, notes |-> T0, fts |-> F0, changes |-> 0]

\* INSERT INTO notes (...) VALUES (...), with its trigger
InsertNote(T, F, values) ==
  LET
      \* the rowid SQLite gives a new row of a table without INTEGER PRIMARY KEY
      NextRowid(Tbl) == IF Tbl = {} THEN 1 ELSE Max({n.rowid : n \in Tbl}) + 1
  IN
    LET new == [values EXCEPT !.rowid = NextRowid(T)]
        dup == \E n \in T : n.id = new.id
        trg == notes_ai(F, new)
    IN  SqlResult(~dup /\ trg.ok, T \cup {new}, trg.fts, T, F, 1)

\* UpdateNote that also writes created_at
UpdateNoteTouchesCreated(T, F, id, userId, title, content, category, tags, pinned, updated_at) ==
    LET hit == {n \in T : n.id = id /\ n.user_id = userId}
    IN  IF hit = {} THEN SqlResult(TRUE, T, F, T, F, 0)
        ELSE LET old == CHOOSE n \in hit : TRUE
                 new == [old EXCEPT !.title = title, !.content = content,
                                    !.category = category, !.tags = tags,
                                    !.pinned = pinned, !.updated_at = updated_at,
                                    !.created_at = updated_at]
                 trg == notes_au(F, old, new)
             IN  SqlResult(trg.ok, (T \ {old}) \cup {new}, trg.fts, T, F, 1)

\* UPDATE notes SET ... WHERE id = ? AND user_id = ?, with its trigger
UpdateNote(T, F, id, userId, title, content, category, tags, pinned, updated_at) ==
    LET hit == {n \in T : n.id = id /\ n.user_id = userId}
    IN  IF hit = {} THEN SqlResult(TRUE, T, F, T, F, 0)
        ELSE LET old == CHOOSE n \in hit : TRUE
                 new == [old EXCEPT !.title = title, !.content = content,
                                    !.category = category, !.tags = tags,
                                    !.pinned = pinned, !.updated_at = updated_at]
                 trg == notes_au(F, old, new)
             IN  SqlResult(trg.ok, (T \ {old}) \cup {new}, trg.fts, T, F, 1)

RECURSIVE DeleteTriggers(_, _)
DeleteTriggers(F, olds) ==
    IF olds = {} THEN F
    ELSE LET old == CHOOSE n \in olds : TRUE
         IN  DeleteTriggers(notes_ad(F, old), olds \ {old})

\* DeleteNote with WHERE id = ? alone
DeleteNoteAnyOwner(T, F, id, userId) ==
    LET hit == {n \in T : n.id = id}
    IN  SqlResult(TRUE, T \ hit, DeleteTriggers(F, hit), T, F, Cardinality(hit))

\* DELETE FROM notes WHERE id = ? AND user_id = ?, with its trigger
DeleteNote(T, F, id, userId) ==
    LET hit == {n \in T : n.id = id /\ n.user_id = userId}
    IN  SqlResult(TRUE, T \ hit, DeleteTriggers(F, hit), T, F, Cardinality(hit))

\* INSERT OR IGNORE INTO notes_fts(rowid, ...) SELECT rowid, ... FROM notes.
\* A row whose rowid is already indexed is skipped where the FTS5 build
\* honours OR IGNORE (ignore), and fails the statement where it does not.
Backfill(T, F, ignore) ==
    LET fresh == {n \in T : \A f \in F : f.rowid # n.rowid}
    IN  IF fresh # T /\ ~ignore THEN [ok |-> FALSE, fts |-> F]
        ELSE [ok |-> TRUE, fts |-> F \cup {FtsRow(n) : n \in fresh}]

(* ---------------------------- requests --------------------------------- *)

\* the JS value undefined where an array is expected
UndefinedArray == <<Undefined>>

\* req.body of POST /api/notes; pinned is "true", "false" or "undefined",
\* createdAt and updatedAt are 0 when absent
Body(id, title, content, category, tags, pinned, createdAt, updatedAt) ==
    [id |-> id, title |-> title, content |-> content, category |-> category,
     tags |-> tags, pinned |-> pinned, createdAt |-> createdAt,
     updatedAt |-> updatedAt]

NoBody == Body(Undefined, Undefined, Undefined, Undefined, UndefinedArray,
               "undefined", 0, 0)

Request(op, userId, body, id, q) ==
    [id |-> id, userId |-> userId, op |-> op, body |-> body, q |-> q]

NoRequest == Request("none", Undefined, NoBody, Undefined, Undefined)

Response(status, data) == [status |-> status, data |-> data]

NoResponse == Response(0, <<>>)

\* the note object both routes build from a row n
formattedNote(n) ==
    [id |-> n.id, title |-> n.title, content |-> n.content,
     category |-> n.category, pinned |-> (n.pinned # 0),
     tags |-> JSONparse(n.tags), createdAt |-> n.created_at,
     updatedAt |-> n.updated_at]

formattedNotes(rows) == [i \in 1..Len(rows) |-> formattedNote(rows[i])]

\* better-sqlite3 binds strings and numbers; undefined makes run() throw
Bindable(v) == v # Undefined

\* pinned ? 1 : 0
PinnedBit(p) == IF p = "true" THEN 1 ELSE 0

\* tags || []
TagsOrEmpty(tags) == IF tags = UndefinedArray THEN <<>> ELSE tags

(* ---------------------------- POST /api/notes -------------------------- *)

Outcome(status, T, F, finalNoteId, issued) ==
    [status |-> status, notes |-> T, fts |-> F, finalNoteId |-> finalNoteId,
     uuids |-> issued]

\* Existing with WHERE id = ? alone
ExistingAnyOwner(userId, id) == \E n \in notes : n.id = id

\* SELECT id FROM notes WHERE id = ? AND user_id = ?
Existing(userId, id) == \E n \in notes : n.id = id /\ n.user_id = userId

\* SaveOutcome that inserts the note when no row has its id
SaveOutcomeUpsert(userId, body) ==
    LET now == clock
        tags == JSONstringify(TagsOrEmpty(body.tags))
        failed(status) == Outcome(status, notes, notes_fts, Undefined, uuids)
    IN  IF Truthy(body.id)
        THEN IF ~Existing(userId, body.id)
             THEN LET r == InsertNote(notes, notes_fts,
                        [rowid |-> 0, id |-> body.id, user_id |-> userId,
                         title |-> OrElse(body.title, <<>>),
                         content |-> OrElse(body.content, <<>>),
                         category |-> OrElse(body.category, DefaultCategory),
                         tags |-> tags, pinned |-> PinnedBit(body.pinned),
                         created_at |-> now, updated_at |-> now])
                  IN  IF r.ok THEN Outcome(200, r.notes, r.fts, body.id, uuids)
                      ELSE failed(500)
             ELSE IF ~(Bindable(body.title) /\ Bindable(body.content)
                       /\ Bindable(body.category))
             THEN failed(500)
             ELSE LET r == UpdateNote(notes, notes_fts, body.id, userId,
                                      body.title, body.content, body.category,
                                      tags, PinnedBit(body.pinned), now)
                  IN  IF r.ok THEN Outcome(200, r.notes, r.fts, body.id, uuids)
                      ELSE failed(500)
        ELSE LET newId == uuidv4(uuids + 1)
                 r == InsertNote(notes, notes_fts,
                        [rowid |-> 0, id |-> newId, user_id |-> userId,
                         title |-> OrElse(body.title, <<>>),
                         content |-> OrElse(body.content, <<>>),
                         category |-> OrElse(body.category, DefaultCategory),
                         tags |-> tags, pinned |-> PinnedBit(body.pinned),
                         created_at |-> now, updated_at |-> now])
             IN  IF r.ok THEN Outcome(200, r.notes, r.fts, newId, uuids + 1)
                 ELSE Outcome(500, notes, notes_fts, Undefined, uuids + 1)

\* the try block of the handler up to finalNoteId
SaveOutcome(userId, body) ==
    LET now == clock
        tags == JSONstringify(TagsOrEmpty(body.tags))
        failed(status) == Outcome(status, notes, notes_fts, Undefined, uuids)
    IN  IF Truthy(body.id)
        THEN IF ~Existing(userId, body.id)
             THEN failed(404)
             ELSE IF ~(Bindable(body.title) /\ Bindable(body.content)
                       /\ Bindable(body.category))
             THEN failed(500)
             ELSE LET r == UpdateNote(notes, notes_fts, body.id, userId,
                                      body.title, body.content, body.category,
                                      tags, PinnedBit(body.pinned), now)
                  IN  IF r.ok THEN Outcome(200, r.notes, r.fts, body.id, uuids)
                      ELSE failed(500)
        ELSE LET newId == uuidv4(uuids + 1)
                 r == InsertNote(notes, notes_fts,
                        [rowid |-> 0, id |-> newId, user_id |-> userId,
                         title |-> OrElse(body.title, <<>>),
                         content |-> OrElse(body.content, <<>>),
                         category |-> OrElse(body.category, DefaultCategory),
                         tags |-> tags, pinned |-> PinnedBit(body.pinned),
                         created_at |-> now, updated_at |-> now])
             IN  IF r.ok THEN Outcome(200, r.notes, r.fts, newId, uuids + 1)
                 ELSE Outcome(500, notes, notes_fts, Undefined, uuids + 1)

\* app.post('/api/notes')
SaveNote(userId, body) ==
    /\ up
    /\ Truthy(body.id) \/ uuids < MaxUuid
    /\ LET o == SaveOutcome(userId, body)
           saved == CHOOSE m \in o.notes : m.id = o.finalNoteId
       IN  /\ notes' = o.notes
           /\ notes_fts' = o.fts
           /\ uuids' = o.uuids
           /\ selected' = IF o.status = 200 THEN <<saved>> ELSE <<>>
           /\ res' = Response(o.status, formattedNotes(selected'))
    /\ req' = Request("save", userId, body, Undefined, Undefined)
    /\ UNCHANGED <<clock, up, deleted>>
    /\ UNCHANGED <<aiVars, authVars, clientVars>>

(* ---------------------------- DELETE /api/notes/:id -------------------- *)

\* app.delete('/api/notes/:id')
RemoveNote(userId, id) ==
    /\ up
    /\ LET result == DeleteNote(notes, notes_fts, id, userId)
       IN  /\ notes' = result.notes
           /\ notes_fts' = result.fts
           /\ res' = Response(IF result.changes = 0 THEN 404 ELSE 200, <<>>)
           /\ deleted' = IF result.changes = 0 THEN deleted ELSE deleted \cup {id}
    /\ req' = Request("delete", userId, NoBody, id, Undefined)
    /\ selected' = <<>>
    /\ UNCHANGED <<clock, uuids, up>>
    /\ UNCHANGED <<aiVars, authVars, clientVars>>

(* ---------------------------- GET /api/notes --------------------------- *)

\* `"${escapedQ}"*`
safeQuery(q) ==
  LET
      RECURSIVE escapedQ(_)
      \* q.replace(/"/g, '""')
      escapedQ(str) ==
          IF str = <<>> THEN <<>>
          ELSE (IF Head(str) = QUOTE THEN <<QUOTE, QUOTE>> ELSE <<Head(str)>>)
               \o escapedQ(Tail(str))
  IN  <<QUOTE>> \o escapedQ(q) \o <<QUOTE, "*">>

\* a result row with the value its ORDER BY sorts on after pinned
Keyed(n, key) == [n |-> n, key |-> key]

\* Precedes for ORDER BY key alone
PrecedesKeyOnly(x, y) == x.key < y.key

\* ORDER BY pinned DESC, key
Precedes(x, y) ==
    \/ x.n.pinned > y.n.pinned
    \/ x.n.pinned = y.n.pinned /\ x.key < y.key

\* the orders in which SQLite may return the rows of S
OrderBy(S) ==
    {s \in [1..Cardinality(S) -> S] :
        /\ \A i, j \in 1..Cardinality(S) : i # j => s[i] # s[j]
        /\ \A i, j \in 1..Cardinality(S) : i < j => ~Precedes(s[j], s[i])}

\* SearchRows without f.user_id = ?
SearchRowsAnyOwner(userId, parsed) ==
    OrderBy({Keyed(pair[1], Fts5Rank(pair[2], parsed)) :
                pair \in {pr \in notes \X notes_fts :
                            /\ pr[1].id = pr[2].id
                            /\ Fts5Match(pr[2], parsed)}})

\* SELECT n.* FROM notes n JOIN notes_fts f ON n.id = f.id
\* WHERE f.user_id = ? AND f.notes_fts MATCH ? ORDER BY n.pinned DESC, f.rank
SearchRows(userId, parsed) ==
    OrderBy({Keyed(pair[1], Fts5Rank(pair[2], parsed)) :
                pair \in {pr \in notes \X notes_fts :
                            /\ pr[1].id = pr[2].id
                            /\ pr[2].user_id = userId
                            /\ Fts5Match(pr[2], parsed)}})

\* SELECT * FROM notes WHERE user_id = ? ORDER BY pinned DESC, updated_at DESC
ListRows(userId) ==
    OrderBy({Keyed(n, 0 - n.updated_at) : n \in {m \in notes : m.user_id = userId}})

\* app.get('/api/notes')
ListNotes(userId, q) ==
    /\ up
    /\ LET parsed == Fts5Parse(safeQuery(q))
       IN  IF Truthy(q) /\ ~parsed.ok
           THEN /\ selected' = <<>>
                /\ res' = Response(500, <<>>)
           ELSE \E s \in (IF Truthy(q) THEN SearchRows(userId, parsed)
                          ELSE ListRows(userId)) :
                  /\ selected' = [i \in 1..Len(s) |-> s[i].n]
                  /\ res' = Response(200, formattedNotes(selected'))
    /\ req' = Request("list", userId, NoBody, Undefined, q)
    /\ UNCHANGED <<notes, notes_fts, clock, uuids, up, deleted>>
    /\ UNCHANGED <<aiVars, authVars, clientVars>>

(* ---------------------------- process ---------------------------------- *)

\* the server is stopped and started again: db.exec of the schema script,
\* whose CREATE ... IF NOT EXISTS statements change nothing, then its backfill
Restart ==
    \E ignore \in BOOLEAN :
        LET r == Backfill(notes, notes_fts, ignore)
        IN  /\ notes_fts' = r.fts
            /\ up' = r.ok
            /\ req' = NoRequest
            /\ res' = NoResponse
            /\ selected' = <<>>
            /\ UNCHANGED <<notes, clock, uuids, deleted>>
            /\ UNCHANGED <<aiVars, authVars, netVars, clientVars>>

\* time passes
Tick ==
    /\ clock < MaxClock
    /\ clock' = clock + 1
    /\ UNCHANGED <<notes, notes_fts, uuids, up, req, res, selected, deleted>>
    /\ UNCHANGED <<aiVars, authVars, netVars, clientVars>>

(* ---------------------------- AI adapter: values ---------------------- *)

\* the JS value null
Null == <<"null">>

\* !v of a string, null or undefined: '' is falsy as null and undefined are
Falsy(v) == v \in {Null, Undefined, <<>>}

\* s.trim()
trim(s) ==
  LET
      \* the characters String.prototype.trim() removes
      WhiteSpace == {" ", "\n", "\t"}

      RECURSIVE TrimEnd(_)
      TrimEnd(str) ==
          IF str # <<>> /\ str[Len(str)] \in WhiteSpace
          THEN TrimEnd(SubSeq(str, 1, Len(str) - 1))
          ELSE str

      RECURSIVE TrimStart(_)
      TrimStart(str) ==
          IF str # <<>> /\ Head(str) \in WhiteSpace THEN TrimStart(Tail(str)) ELSE str
  IN  TrimEnd(TrimStart(s))

RECURSIVE join(_, _)
\* arr.join(sep)
join(arr, sep) ==
    IF arr = <<>> THEN <<>>
    ELSE IF Len(arr) = 1 THEN arr[1]
         ELSE arr[1] \o sep \o join(Tail(arr), sep)

\* one element of a chat message list
Message(role, content) == [content |-> content, role |-> role]

\* the argument of callAI: a prompt string or a list of messages
StringInput(text) == [text |-> text, isArray |-> FALSE, array |-> <<>>]
ArrayInput(array) == [text |-> <<>>, isArray |-> TRUE, array |-> array]

(* ---------------------------- AI adapter: providers ------------------- *)

\* what the HTTP call to the primary provider does: fetch() throws `thrown`,
\* or response.json() throws `thrown`, or the body parses to `data`
Fetched(fetch, json, thrown, data) ==
    [json |-> json, data |-> data, fetch |-> fetch, thrown |-> thrown]

\* a parsed response body.  error is the text of data.error.message,
\* Undefined when the body has no error member and '' when the error object
\* has no message; message is data.message; choices holds the content of
\* each choices[i].message, Undefined where that message has no content
Data(error, message, choices) ==
    [error |-> error, message |-> message, choices |-> choices]

\* what model.generateContent() followed by response.text() does
Generated(throws, thrown, text) ==
    [text |-> text, thrown |-> thrown, throws |-> throws]

\* process.env.OPENAI_API_KEY set or not, genAI's model made or null, and
\* what the two providers do when they are called
Env(key, model, primary, secondary) ==
    [key |-> key, model |-> model, primary |-> primary,
     secondary |-> secondary]

\* The fixed texts of ai.js are Chinese; they are written here in English,
\* one character per element, as the texts of the note routes are.

\* '未配置服务'
NotConfigured ==
    <<"s", "e", "r", "v", "i", "c", "e", " ", "n", "o", "t", " ", "c", "o",
      "n", "f", "i", "g", "u", "r", "e", "d">>

\* logData.provider after the primary provider's completion
OpenAICompatible ==
    <<"O", "p", "e", "n", "A", "I", "-", "C", "o", "m", "p", "a", "t", "i",
      "b", "l", "e">>

\* logData.provider after the secondary provider's text
GeminiSDK ==
    <<"G", "e", "m", "i", "n", "i", "-", "S", "D", "K">>

(* ---------------------------- AI adapter: callAI ---------------------- *)

\* what one provider attempt leaves behind: result as assigned (Null when it
\* was not), the message of the exception caught (Undefined when none was
\* thrown), logData.provider as assigned, and whether the provider was called
Attempt(called, result, error, provider) ==
    [result |-> result, error |-> error, called |-> called,
     provider |-> provider]

NoAttempt == Attempt(FALSE, Null, Undefined, Undefined)

\* const messages
messages(input) ==
    IF input.isArray THEN input.array
    ELSE <<Message("user", input.text)>>

\* logData as callAI hands it to writeLog: sdk says that raw_response is
\* the response object of the secondary provider's SDK
LogData(provider, final_answer, error, sdk) ==
    [error |-> error, provider |-> provider, final_answer |-> final_answer,
     sdk |-> sdk]

\* what an invocation of callAI did and how it ended
Trace(invoked, env, input, first, second, errors, result, thrown, logData) ==
  LET
      \* const flattenedPrompt
      flattenedPrompt(given) ==
        LET
            \* the label flattenedPrompt gives a role
            RoleLabel(role) ==
                IF role = "system"
                THEN <<"I", "n", "s", "t", "r", "u", "c", "t", "i", "o", "n">>
                ELSE IF role = "user"
                     THEN <<"U", "s", "e", "r">>
                     ELSE <<"A", "s", "s", "i", "s", "t", "a", "n", "t">>
        IN
          IF given.isArray
          THEN join([i \in 1..Len(given.array) |->
                       RoleLabel(given.array[i].role) \o <<":", " ">>
                           \o given.array[i].content],
                    <<"\n", "\n">>)
          ELSE given.text
  IN
    [result |-> result, key |-> env.key, thrown |-> thrown,
     model |-> env.model, primary |-> env.primary,
     secondary |-> env.secondary, messages |-> messages(input),
     invoked |-> invoked, errors |-> errors, logData |-> logData,
     prompt |-> flattenedPrompt(input),
     primaryCalls |-> IF first.called THEN 1 ELSE 0,
     secondaryCalls |-> IF second.called THEN 1 ELSE 0]

\* callAI(input) where the environment is env
callAI(input, env) ==
  LET
      \* '备选方案失败: '
      SecondaryFailed ==
          <<"s", "e", "c", "o", "n", "d", "a", "r", "y", " ", "f", "a", "i", "l",
            "e", "d", ":", " ">>

      \* '首选方案失败: '
      PrimaryFailed ==
          <<"p", "r", "i", "m", "a", "r", "y", " ", "f", "a", "i", "l", "e", "d",
            ":", " ">>

      \* the try block of the secondary provider
      SecondaryAttempt(s) ==
          IF s.throws
          THEN Attempt(TRUE, Null, s.thrown, Undefined)
          ELSE Attempt(TRUE, trim(s.text), Undefined, GeminiSDK)

      \* the try block of the primary provider
      PrimaryAttempt(p) ==
        LET
            \* the message of the TypeError that reading .trim of undefined throws
            NoTrim ==
                <<"C", "a", "n", "n", "o", "t", " ", "r", "e", "a", "d", " ", "p", "r",
                  "o", "p", "e", "r", "t", "i", "e", "s", " ", "o", "f", " ", "u", "n",
                  "d", "e", "f", "i", "n", "e", "d", " ", "(", "r", "e", "a", "d", "i",
                  "n", "g", " ", "'", "t", "r", "i", "m", "'", ")">>

            \* 'API 业务错误'
            BusinessError ==
                <<"A", "P", "I", " ", "b", "u", "s", "i", "n", "e", "s", "s", " ", "e",
                  "r", "r", "o", "r">>
        IN
          IF p.fetch = "throws" \/ p.json = "throws"
          THEN Attempt(TRUE, Null, p.thrown, Undefined)
          ELSE IF p.data.error # Undefined \/ Truthy(p.data.message)
               THEN Attempt(TRUE, Null,
                            OrElse(OrElse(p.data.error, p.data.message),
                                   BusinessError),
                            Undefined)
               ELSE IF p.data.choices # <<>>
                    THEN IF p.data.choices[1] = Undefined
                         THEN Attempt(TRUE, Null, NoTrim, Undefined)
                         ELSE Attempt(TRUE, trim(p.data.choices[1]), Undefined,
                                      OpenAICompatible)
                    ELSE Attempt(TRUE, Null, Undefined, Undefined)
  IN
    LET first == IF env.key THEN PrimaryAttempt(env.primary) ELSE NoAttempt
        second == IF Falsy(first.result) /\ env.model
                  THEN SecondaryAttempt(env.secondary)
                  ELSE NoAttempt
        answered == second.called /\ second.error = Undefined
        result == IF answered THEN second.result ELSE first.result
        provider == IF answered THEN second.provider ELSE first.provider
        errors == (IF first.error # Undefined
                   THEN <<PrimaryFailed \o first.error>> ELSE <<>>)
                  \o (IF second.error # Undefined
                      THEN <<SecondaryFailed \o second.error>> ELSE <<>>)
        finalError == IF Len(errors) > 0 THEN join(errors, <<";", " ">>)
                      ELSE NotConfigured
    IN  IF ~Falsy(result)
        THEN Trace(TRUE, env, input, first, second, errors, result, Undefined,
                   LogData(provider, result, Undefined, answered))
        ELSE Trace(TRUE, env, input, first, second, errors, result, finalError,
                   LogData(provider, Undefined, finalError, answered))

(* ---------------------------- AI adapter: writeLog -------------------- *)

\* the promise of the n-th writeLog(data) once its synchronous part has run:
\* JSON.stringify, which is outside the try block, has thrown and rejected
\* it, or fs.appendFile is under way.  What callAI logs is strings and
\* JSON.parse output, which always serialise, except the SDK's response
\* object, of which the repository knows nothing
writeLog(n, data, serialisable) ==
    [n |-> n, entry |-> data,
     state |-> IF data.sdk /\ ~serialisable THEN "rejected" ELSE "appending"]

(* ---------------------------- AI adapter: aiService ------------------- *)

\* content.length < 10
MinSummarizeLength == 10
\* content.trim().length < 5
MinFormatLength == 5
\* history.slice(-10)
HistoryWindow == 10

\* '内容太短，无法生成摘要。至少需要10个字符。'
TooShortToSummarize ==
    <<"c", "o", "n", "t", "e", "n", "t", " ", "t", "o", "o", " ", "s", "h",
      "o", "r", "t", " ", "t", "o", " ", "s", "u", "m", "m", "a", "r", "i",
      "z", "e", ",", " ", "1", "0", " ", "c", "h", "a", "r", "a", "c", "t",
      "e", "r", "s", " ", "n", "e", "e", "d", "e", "d">>

\* '请输入您想提问的内容'
NoQuestion ==
    <<"e", "n", "t", "e", "r", " ", "y", "o", "u", "r", " ", "q", "u", "e",
      "s", "t", "i", "o", "n">>

\* '内容太短，无法进行有效排版。'
TooShortToFormat ==
    <<"c", "o", "n", "t", "e", "n", "t", " ", "t", "o", "o", " ", "s", "h",
      "o", "r", "t", " ", "t", "o", " ", "f", "o", "r", "m", "a", "t">>

\* the prompt of summarize before ${content}
SummarizePrompt ==
    <<"S", "u", "m", "m", "a", "r", "i", "z", "e", " ", "t", "h", "e", " ",
      "f", "o", "l", "l", "o", "w", "i", "n", "g", " ", "i", "n", " ", "1",
      "0", "0", " ", "c", "h", "a", "r", "a", "c", "t", "e", "r", "s", " ",
      "o", "r", " ", "l", "e", "s", "s", ":", "\n", "\n">>

\* the system message of chat before the note content
ChatHead ==
    <<"Y", "o", "u", " ", "a", "r", "e", " ", "a", " ", "n", "o", "t", "e",
      " ", "c", "o", "m", "p", "a", "n", "i", "o", "n", ".", " ", "B", "a",
      "c", "k", "g", "r", "o", "u", "n", "d", ":", "\n", "-", "-", "-", "\n">>

\* the system message of chat after the note content
ChatTail ==
    <<"\n", "-", "-", "-", "\n", "A", "n", "s", "w", "e", "r", " ", "b",
      "r", "i", "e", "f", "l", "y", ".">>

\* '(该笔记目前为空)'
EmptyNote ==
    <<"(", "t", "h", "i", "s", " ", "n", "o", "t", "e", " ", "i", "s", " ",
      "e", "m", "p", "t", "y", ")">>

\* the full-width comma U+FF0C
FULLWIDTH_COMMA == "U+FF0C"

\* what an operation gives its route, and the status the route answers with:
\* a returned text or tag list (200), or the message of the error thrown (500)
Return(text, tags) ==
    [text |-> text, tags |-> tags, status |-> 200, kind |-> "return"]
Throw(message) ==
    [text |-> message, tags |-> <<>>, status |-> 500, kind |-> "throw"]
NoAnswer == [text |-> <<>>, tags |-> <<>>, status |-> 0, kind |-> "none"]

NoFetched == Fetched("none", "none", Undefined, Data(Undefined, Undefined, <<>>))
NoGenerated == Generated(FALSE, Undefined, <<>>)
NoEnv == Env(FALSE, FALSE, NoFetched, NoGenerated)

\* no invocation of callAI
NoCall ==
    [Trace(FALSE, NoEnv, ArrayInput(<<>>), NoAttempt, NoAttempt, <<>>, Null,
           Undefined, LogData(Undefined, Undefined, Undefined, FALSE))
     EXCEPT !.prompt = <<>>]

\* what an operation did: the callAI invocation it made, if any, and its end
Done(trace, end) == [call |-> trace, answer |-> end]

\* Delegate whose catch block throws a new error around the message caught
DelegateWrapped(input, env) ==
    LET t == callAI(input, env)
    IN  Done(t, IF t.thrown = Undefined THEN Return(t.result, <<>>)
                ELSE Throw(<<"A", "I", ":", " ">> \o t.thrown))

\* return await callAI(input) inside try { } catch (error) { throw error }
Delegate(input, env) ==
    LET t == callAI(input, env)
    IN  Done(t, IF t.thrown = Undefined THEN Return(t.result, <<>>)
                ELSE Throw(t.thrown))

\* summarize without the test of the length of content
summarizeAnyLength(content, env) ==
    IF Falsy(content)
    THEN Done(NoCall, Throw(TooShortToSummarize))
    ELSE Delegate(StringInput(SummarizePrompt \o content), env)

\* aiService.summarize
summarize(content, env) ==
    IF Falsy(content) \/ Len(content) < MinSummarizeLength
    THEN Done(NoCall, Throw(TooShortToSummarize))
    ELSE Delegate(StringInput(SummarizePrompt \o content), env)

\* filterNonEmpty that keeps every piece
filterNothing(arr) == arr

\* arr.filter(t => t.length > 0)
filterNonEmpty(arr) == SelectSeq(arr, LAMBDA t : Len(t) > 0)

\* aiService.suggestTags
suggestTags(content, env) ==
  LET
      \* arr.map(t => t.trim())
      mapTrim(arr) == [i \in 1..Len(arr) |-> trim(arr[i])]

      \* s.split(/[,，]/): the pieces of s between the separators, in order
      split(s, seps) ==
          LET cuts == {i \in 1..Len(s) : s[i] \in seps}
              \* the position of the k-th separator; 0 before the first of them
              \* and Len(s) + 1 after the last
              cut(k) == IF k = 0 THEN 0
                        ELSE IF k > Cardinality(cuts) THEN Len(s) + 1
                        ELSE CHOOSE i \in cuts :
                                 Cardinality({j \in cuts : j <= i}) = k
          IN  [k \in 1..Cardinality(cuts) + 1 |->
                  SubSeq(s, cut(k - 1) + 1, cut(k) - 1)]

      \* the prompt of suggestTags before ${content}
      TagsPrompt ==
          <<"O", "u", "t", "p", "u", "t", " ", "3", " ", "k", "e", "y", "w", "o",
            "r", "d", " ", "t", "a", "g", "s", " ", "s", "e", "p", "a", "r", "a",
            "t", "e", "d", " ", "b", "y", " ", "h", "a", "l", "f", "-", "w", "i",
            "d", "t", "h", " ", "c", "o", "m", "m", "a", "s", ":", "\n", "\n">>
  IN
    IF Falsy(content) THEN Done(NoCall, Return(<<>>, <<>>))
    ELSE LET t == callAI(StringInput(TagsPrompt \o content), env)
         IN  Done(t, IF t.thrown = Undefined
                     THEN Return(<<>>, filterNonEmpty(mapTrim(
                              split(t.result, {",", FULLWIDTH_COMMA}))))
                     ELSE Return(<<>>, <<>>))

\* arr.slice(0, k)
sliceFirst(arr, k) ==
    IF Len(arr) <= k THEN arr ELSE SubSeq(arr, 1, k)

\* arr.slice(-k)
sliceLast(arr, k) ==
    IF Len(arr) <= k THEN arr ELSE SubSeq(arr, Len(arr) - k + 1, Len(arr))

NotGiven == [given |-> FALSE, turns |-> <<>>]

\* aiService.chat; history = [] when the argument is undefined
chat(content, question, history, env) ==
    IF Falsy(question) THEN Done(NoCall, Throw(NoQuestion))
    ELSE LET recentHistory ==
                 sliceLast(IF history.given THEN history.turns ELSE <<>>,
                           HistoryWindow)
         IN  Delegate(ArrayInput(
                 <<Message("system",
                           ChatHead \o OrElse(content, EmptyNote) \o ChatTail)>>
                 \o recentHistory
                 \o <<Message("user", question)>>), env)

\* aiService.format
format(content, env) ==
  LET
      \* the prompt of format after ${content}
      FormatTail ==
          <<"\n", "-", "-", "-">>

      \* the prompt of format before ${content}
      FormatHead ==
          <<"Y", "o", "u", " ", "a", "r", "e", " ", "a", " ", "t", "y", "p", "e",
            "s", "e", "t", "t", "i", "n", "g", " ", "e", "x", "p", "e", "r", "t",
            ".", " ", "P", "o", "l", "i", "s", "h", " ", "t", "h", "i", "s", " ",
            "M", "a", "r", "k", "d", "o", "w", "n", ":", "\n", "\n", "-", "-",
            "-", "\n">>
  IN
    IF Falsy(content) \/ Len(trim(content)) < MinFormatLength
    THEN Done(NoCall, Throw(TooShortToFormat))
    ELSE Delegate(StringInput(FormatHead \o content \o FormatTail), env)

(* ---------------------------- AI routes ------------------------------ *)

\* req.body of an AI route, and the route
AiRequest(route, content, question, history) ==
    [content |-> content, question |-> question, history |-> history,
     route |-> route]

NoAiRequest == AiRequest("none", Undefined, Undefined, NotGiven)

\* AiRoute where callAI calls writeLog on its successful path alone
AiRouteLogsSuccessOnly(request, done, serialisable) ==
    /\ up
    /\ done.call.invoked => calls < MaxCalls
    /\ aiReq' = request
    /\ call' = done.call
    /\ answer' = done.answer
    /\ calls' = IF done.call.invoked THEN calls + 1 ELSE calls
    /\ writes' = IF done.call.invoked /\ done.call.thrown = Undefined
                 THEN writes \cup {writeLog(calls + 1, done.call.logData,
                                            serialisable)}
                 ELSE writes
    /\ UNCHANGED <<ai_log, rejections>>
    /\ UNCHANGED <<noteVars, authVars, netVars, clientVars>>

\* an AI route runs its operation to the end: callAI, when the operation
\* reaches it, has called writeLog without awaiting it before the route
\* answers
AiRoute(request, done, serialisable) ==
    /\ up
    /\ done.call.invoked => calls < MaxCalls
    /\ aiReq' = request
    /\ call' = done.call
    /\ answer' = done.answer
    /\ calls' = IF done.call.invoked THEN calls + 1 ELSE calls
    /\ writes' = IF done.call.invoked
                 THEN writes \cup {writeLog(calls + 1, done.call.logData,
                                            serialisable)}
                 ELSE writes
    /\ UNCHANGED <<ai_log, rejections>>
    /\ UNCHANGED <<noteVars, authVars, netVars, clientVars>>

\* app.post('/api/ai/summarize')
PostSummarize(content, env, serialisable) ==
    AiRoute(AiRequest("summarize", content, Undefined, NotGiven),
            summarize(content, env), serialisable)

\* fs.appendFile of a writeLog settles: the entry is in LOG_FILE, or the
\* catch block has printed the failure
AppendFile ==
    /\ up
    /\ \E w \in writes, ok \in BOOLEAN :
        /\ w.state = "appending"
        /\ ai_log' = IF ok THEN Append(ai_log, [n |-> w.n, entry |-> w.entry])
                     ELSE ai_log
        /\ writes' = writes \ {w}
    /\ UNCHANGED <<aiReq, call, answer, rejections, calls>>
    /\ UNCHANGED <<noteVars, authVars, netVars, clientVars>>

\* a rejected writeLog promise, which nothing awaits or catches, reaches the
\* process as an unhandled rejection: Node ends the process or prints a
\* warning, as its version and flags have it
UnhandledRejection ==
    /\ up
    /\ \E w \in writes :
        /\ w.state = "rejected"
        /\ rejections' = rejections \cup {w.n}
        /\ writes' = writes \ {w}
    /\ up' \in BOOLEAN
    /\ UNCHANGED <<notes, notes_fts, clock, uuids, req, res, selected, deleted>>
    /\ UNCHANGED <<aiReq, call, answer, ai_log, calls>>
    /\ UNCHANGED <<authVars, netVars, clientVars>>

(* ---------------------------- POST /api/auth/register ---------------- *)

\* a JS value that is truthy and not a string: bcrypt.hash throws on it
NotAString == <<"number">>

\* 'UNIQUE constraint failed: users.username', the message of the SqliteError
UniqueConstraintFailed ==
    <<"U", "N", "I", "Q", "U", "E", " ", "c", "o", "n", "s", "t", "r", "a",
      "i", "n", "t", " ", "f", "a", "i", "l", "e", "d">>

\* the error text of the 400 answer to a taken name: yong hu ming yi cun zai
UsernameExists ==
    <<"u", "s", "e", "r", "n", "a", "m", "e", " ", "e", "x", "i", "s", "t",
      "s">>

\* the error text of the 500 answer: zhu ce shi bai
RegisterFailed ==
    <<"r", "e", "g", "i", "s", "t", "e", "r", " ", "f", "a", "i", "l", "e",
      "d">>

\* the statement did not throw
NoMessage == <<>>

\* what a statement on users gives: the table, and the error message if it threw
UserResult(U, message) == [users |-> U, message |-> message]

\* InsertUser on a table whose username column is not UNIQUE
InsertUserNoUnique(U, id, username, password) ==
    IF \E u \in U : u.id = id
    THEN UserResult(U, UniqueConstraintFailed \o <<":", " ", "i", "d">>)
    ELSE UserResult(U \cup {[id |-> id, username |-> username,
                             password |-> password]}, NoMessage)

\* INSERT INTO users (id, username, password) VALUES (?, ?, ?) on
\* users (id TEXT PRIMARY KEY, username TEXT UNIQUE NOT NULL, ...)
InsertUser(U, id, username, password) ==
    IF \E u \in U : u.id = id \/ u.username = username
    THEN UserResult(U, UniqueConstraintFailed \o <<":", " ", "i", "d">>)
    ELSE UserResult(U \cup {[id |-> id, username |-> username,
                             password |-> password]}, NoMessage)

\* bcrypt.hash(password, 10): a text that is not the password
hash(password) == <<"$", "2", "b", "$">> \o password

(* ---------------------------- client: api/notes.ts -------------------- *)

\* localStorage.getItem(TOKEN_KEY) of a browser that holds no token: null
NoToken == <<"n", "o", "n", "e">>

\* no error thrown
NoError == <<>>

\* the JS value null where an array is expected
NullArray == <<Null>>

\* a request on its way to the server: fetch() has been called and the
\* handler has not run yet; n numbers the requests of one kind
Sent(op, userId, body, q, n) ==
    [n |-> n, userId |-> userId, op |-> op, body |-> body, q |-> q,
     status |-> 0, data |-> <<>>, phase |-> "sent",
     authorization |-> Undefined]

\* the response to m on its way back to the client
Answered(m, response) ==
    [m EXCEPT !.phase = "answered", !.status = response.status,
              !.data = response.data]

\* ...(token ? { 'Authorization': `Bearer ${token}` } : {})
Authorized(m, stored) ==
    [m EXCEPT !.authorization = IF stored = NoToken THEN Undefined ELSE stored]

\* notesApi.save(note): POST /api/notes with the note as its body
PostNote(userId, body) ==
    /\ Len(arrived) + Cardinality(inflight) < MaxSaves
    /\ inflight' = inflight \cup {Sent("save", userId, body, Undefined,
                                        Len(arrived) + Cardinality(inflight))}
    /\ UNCHANGED <<noteVars, aiVars, authVars, clientVars, arrived>>

\* the server runs the handler of POST /api/notes for one of the requests
\* in flight, whichever reaches it first; the handler has no await and
\* better-sqlite3 is synchronous, so it runs to its end before the next
Arrive ==
  LET
      \* what the history keeps of a save the handler has run
      Arrival(m, response) == [userId |-> m.userId, body |-> m.body,
                               status |-> response.status]
  IN
    \E m \in inflight :
        /\ m.op = "save" /\ m.phase = "sent"
        /\ SaveNote(m.userId, m.body)
        /\ inflight' = inflight \ {m}
        /\ arrived' = Append(arrived, Arrival(m, res'))

\* the server runs the handler of DELETE /api/notes/:id for a request in flight
ArriveDelete ==
    \E m \in inflight :
        /\ m.op = "delete" /\ m.phase = "sent"
        /\ RemoveNote(m.userId, m.body.id)
        /\ inflight' = inflight \ {m}
        /\ UNCHANGED arrived

(* ---------------------------- client: authFetch ----------------------- *)

\* expiresIn: '7d', in ticks of the server's clock
TokenLife == 1

Digits == <<"0", "1", "2", "3", "4", "5", "6", "7", "8", "9">>

\* jwt.sign({ id, username }, JWT_SECRET, { expiresIn }): a token that
\* carries the time it expires at
Jwt(exp) == <<"j", "w", "t", ".", Digits[exp + 1]>>

\* the message of the Error authFetch throws: jian quan shi xiao
AuthExpired ==
    <<"a", "u", "t", "h", " ", "e", "x", "p", "i", "r", "e", "d">>

\* res.ok
ok(status) == status >= 200 /\ status <= 299

\* authFetch and the test of res.ok behind it; uploadImage calls fetch itself
fetchWith(op, status, stored) ==
  LET
      \* what a call of notesApi does with the response: the token it leaves in
      \* localStorage, the error it throws, and whether the page is reloaded
      Handled(kept, error, reload) ==
          [token |-> kept, error |-> error, reload |-> reload]

      \* the message of the Error a call throws when !res.ok; the AI calls take
      \* it from data.error
      FailureOf(api) ==
          CASE api = "list" ->
              <<"F", "a", "i", "l", "e", "d", " ", "t", "o", " ", "f", "e", "t",
                "c", "h", " ", "n", "o", "t", "e", "s">>
            [] api = "save" ->
              <<"F", "a", "i", "l", "e", "d", " ", "t", "o", " ", "s", "a", "v",
                "e", " ", "n", "o", "t", "e">>
            [] api = "delete" ->
              <<"F", "a", "i", "l", "e", "d", " ", "t", "o", " ", "d", "e", "l",
                "e", "t", "e", " ", "n", "o", "t", "e">>
            [] api = "upload" ->
              <<"U", "p", "l", "o", "a", "d", " ", "f", "a", "i", "l", "e", "d">>
            [] OTHER -> <<"d", "a", "t", "a", ".", "e", "r", "r", "o", "r">>
  IN
    IF op # "upload" /\ (status = 401 \/ status = 403)
    THEN Handled(NoToken, AuthExpired, TRUE)
    ELSE IF ~ok(status) THEN Handled(stored, FailureOf(op), FALSE)
    ELSE Handled(stored, NoError, FALSE)

\* Auth.tsx: setToken(token) with the token POST /api/auth/login signed
SignIn ==
    /\ token' = Jwt(clock + TokenLife)
    /\ UNCHANGED <<noteVars, aiVars, authVars, netVars>>
    /\ UNCHANGED <<caught, cnotes, activeNoteId, lastSavedContentRef,
                   lastSavedTagsRef, timers, searchTerm, debouncedSearchTerm,
                   handlers, loading, fetches, shown>>

\* the server answers a call: authenticateToken, then the route
Authenticate ==
  LET
      \* the statuses the route of a call answers once authenticateToken let it pass
      RouteStatuses(op) ==
          CASE op = "list" -> {200, 500}
            [] op = "save" -> {200, 404, 500}
            [] op = "delete" -> {200, 404, 500}
            [] op = "upload" -> {200, 400}
            [] OTHER -> {200, 500}

      \* authenticateToken: 401 without a token, 403 when jwt.verify fails,
      \* else 0 for next()
      authenticateToken(authorization, now) ==
        LET
            \* the exp claim of a token
            Expiry(t) == CHOOSE exp \in 0..9 : Digits[exp + 1] = t[Len(t)]
        IN
          IF ~Truthy(authorization) THEN 401
          ELSE IF now >= Expiry(authorization) THEN 403
          ELSE 0
  IN
    \E m \in inflight :
        /\ m.phase = "sent"
        /\ LET verdict == authenticateToken(m.authorization, clock)
           IN  \E status \in (IF verdict = 0 THEN RouteStatuses(m.op)
                              ELSE {verdict}) :
                 inflight' = (inflight \ {m})
                             \cup {Answered(m, Response(status, <<>>))}
        /\ UNCHANGED <<noteVars, aiVars, authVars, clientVars, arrived>>

\* the call resumes with the response. window.location.reload() unloads
\* the page: the calls still in flight are abandoned then or just after,
\* and App starts again from its initial state
Resume ==
    \E m \in inflight :
        /\ m.phase = "answered"
        /\ LET h == fetchWith(m.op, m.status, token)
           IN  /\ token' = h.token
               /\ caught' = h.error
               /\ inflight' \in (IF h.reload THEN {inflight \ {m}, {}}
                                 ELSE {inflight \ {m}})
        /\ UNCHANGED <<noteVars, aiVars, authVars, arrived>>
        /\ UNCHANGED <<cnotes, activeNoteId, lastSavedContentRef,
                       lastSavedTagsRef, timers, searchTerm,
                       debouncedSearchTerm, handlers, loading, fetches, shown>>

(* ---------------------------- client: search and fetchNotes ----------- *)

\* the user whose token the client holds
Me == <<"d", "1">>

\* q ? `${BASE_URL}/notes?q=${encodeURIComponent(q)}` : `${BASE_URL}/notes`
Query(term) == IF term = <<>> THEN Undefined ELSE term

\* fetchNotes up to its await: notesApi.getAll(debouncedSearchTerm)
getAll(term) ==
    /\ fetches' = fetches + 1
    /\ inflight' = inflight \cup {Sent("list", Me, NoBody, Query(term),
                                        fetches + 1)}

\* the first render of App: the effect on [isAuthenticated, fetchNotes]
\* calls fetchNotes, the effect on [searchTerm] sets the first timeout
Mount ==
    /\ fetches = 0
    /\ getAll(debouncedSearchTerm)
    /\ handlers' = {searchTerm}
    /\ UNCHANGED <<noteVars, aiVars, authVars, arrived>>
    /\ UNCHANGED <<token, caught, cnotes, activeNoteId, lastSavedContentRef,
                   lastSavedTagsRef, timers, searchTerm, debouncedSearchTerm,
                   loading, shown>>

\* a timeout of the search effect fires after 500 ms:
\* setDebouncedSearchTerm(searchTerm of its run); a new value makes a new
\* fetchNotes, and the effect on [isAuthenticated, fetchNotes] calls it
Debounced ==
    \E term \in handlers :
        /\ handlers' = handlers \ {term}
        /\ debouncedSearchTerm' = term
        /\ IF term = debouncedSearchTerm
           THEN UNCHANGED <<fetches, inflight>>
           ELSE fetches < MaxFetches /\ getAll(term)
        /\ UNCHANGED <<noteVars, aiVars, authVars, arrived>>
        /\ UNCHANGED <<token, caught, cnotes, activeNoteId,
                       lastSavedContentRef, lastSavedTagsRef, timers,
                       searchTerm, loading, shown>>

\* the server runs the handler of GET /api/notes for one of the requests
\* in flight; responses travel back independently of each other
ArriveList ==
    \E m \in inflight :
        /\ m.op = "list" /\ m.phase = "sent"
        /\ ListNotes(m.userId, m.q)
        /\ inflight' = (inflight \ {m}) \cup {Answered(m, res')}
        /\ UNCHANGED arrived

\* fetchNotes after its await: setNotes(data || []) when the call returned,
\* a toast when it threw, setLoading(false) in both cases
fetchNotes ==
    \E m \in inflight :
        /\ m.op = "list" /\ m.phase = "answered"
        /\ inflight' = inflight \ {m}
        /\ LET h == fetchWith("list", m.status, token)
           IN  /\ token' = h.token
               /\ caught' = h.error
               /\ cnotes' = IF h.error = NoError THEN m.data ELSE cnotes
               /\ shown' = IF h.error = NoError THEN m.n ELSE shown
        /\ loading' = FALSE
        /\ UNCHANGED <<noteVars, aiVars, authVars, arrived>>
        /\ UNCHANGED <<activeNoteId, lastSavedContentRef, lastSavedTagsRef,
                       timers, searchTerm, debouncedSearchTerm, handlers,
                       fetches>>

(* ---------------------------- client: the editor ---------------------- *)

\* what the editor's handlers leave alone
editorFrame == <<noteVars, aiVars, authVars, arrived, token, caught,
                 searchTerm, debouncedSearchTerm, handlers, loading, fetches,
                 shown>>

\* notes.find(n => n.id === id) !== undefined
Has(list, id) == \E i \in 1..Len(list) : list[i].id = id

\* notes.find(n => n.id === id)
Find(list, id) == list[CHOOSE i \in 1..Len(list) : list[i].id = id]

\* prev.map(n => n.id === id ? note : n)
Replaced(list, id, note) ==
    [i \in 1..Len(list) |-> IF list[i].id = id THEN note ELSE list[i]]

\* JSON.stringify(note) as POST /api/notes reads it back into req.body
ToBody(note) ==
    Body(note.id, note.title, note.content, note.category, note.tags,
         IF note.pinned THEN "true" ELSE "false", note.createdAt,
         note.updatedAt)

\* isContentDirty || isTagsDirty
Dirty(note, contentRef, tagsRef) ==
  LET
      \* lastSavedTagsRef.current || []
      RefOrEmpty(ref) == IF ref = NullArray THEN <<>> ELSE ref
  IN
    \/ note.content # contentRef
    \/ JSONstringify(note.tags) # JSONstringify(RefOrEmpty(tagsRef))

\* the timeout an autosave effect run sets: its closure holds the id
\* handleSaveNote was made for and the content and tags of that render
Timeout(note) == [id |-> note.id, content |-> note.content, tags |-> note.tags]

\* the autosave effect after a render with notes = list and
\* activeNoteId = id, when one of its dependencies changed (rerun): the
\* cleanup of its last run clears the timeout that run set, then a new
\* timeout is set if the note is dirty against the refs
AutosaveEffect(rerun, list, id, contentRef, tagsRef) ==
    LET cleared == IF Has(cnotes, activeNoteId)
                   THEN timers \ {Timeout(Find(cnotes, activeNoteId))}
                   ELSE timers
    IN  IF ~rerun THEN timers
        ELSE IF loading \/ ~Has(list, id) THEN cleared
        ELSE IF ~Dirty(Find(list, id), contentRef, tagsRef) THEN cleared
        ELSE cleared \cup {Timeout(Find(list, id))}

\* the render after setNotes(list): the refs stay, the autosave effect
\* runs again when the active note's content or tags array changed
Rendered(list, rerun) ==
    /\ cnotes' = list
    /\ timers' = AutosaveEffect(rerun, list, activeNoteId,
                                lastSavedContentRef, lastSavedTagsRef)

\* handleUpdateLocalNote(updates) on the active note
handleUpdateLocalNote(note) ==
    /\ Has(cnotes, activeNoteId)
    /\ note # Find(cnotes, activeNoteId)
    /\ Rendered(Replaced(cnotes, activeNoteId, note), TRUE)
    /\ UNCHANGED <<editorFrame, inflight, activeNoteId, lastSavedContentRef,
                   lastSavedTagsRef>>

\* handleSaveNote(updates, silent) up to its await, for the note the
\* callback was made for: notesApi.save({ ...currentNote, ...updates })
SaveRequest(note) == Authorized(Sent("save", Me, ToBody(note), Undefined, 0), token)

\* a timeout of the autosave effect fires after 1500 ms:
\* handleSaveNote({ content, tags }, true)
Autosave ==
    \E t \in timers :
        /\ timers' = timers \ {t}
        /\ IF Has(cnotes, t.id)
           THEN /\ Cardinality(inflight) < MaxPending
                /\ inflight' = inflight \cup
                     {SaveRequest([Find(cnotes, t.id) EXCEPT
                                      !.content = t.content, !.tags = t.tags])}
           ELSE UNCHANGED inflight
        /\ UNCHANGED <<editorFrame, cnotes, activeNoteId, lastSavedContentRef,
                       lastSavedTagsRef>>

\* the server runs the handler of POST /api/notes for a save in flight and
\* answers it
ArriveSave ==
    \E m \in inflight :
        /\ m.op = "save" /\ m.phase = "sent"
        /\ SaveNote(m.userId, m.body)
        /\ inflight' = (inflight \ {m}) \cup {Answered(m, res')}
        /\ UNCHANGED arrived

\* handleSaveNote after its await, with the activeNoteId it was made for:
\* the note of that id is replaced by res.data and the refs take its
\* content and tags; a call that threw changes nothing
handleSaveNote ==
    \E m \in inflight :
        /\ m.op = "save" /\ m.phase = "answered"
        /\ inflight' = inflight \ {m}
        /\ IF fetchWith("save", m.status, token).error = NoError
           THEN /\ lastSavedContentRef' = m.data[1].content
                /\ lastSavedTagsRef' = m.data[1].tags
                /\ cnotes' = Replaced(cnotes, m.body.id, m.data[1])
                /\ timers' = AutosaveEffect(m.body.id = activeNoteId, cnotes',
                                            activeNoteId, lastSavedContentRef',
                                            lastSavedTagsRef')
           ELSE UNCHANGED <<cnotes, timers, lastSavedContentRef,
                            lastSavedTagsRef>>
        /\ UNCHANGED <<editorFrame, activeNoteId>>

\* Combined without the Set
CombinedKeepAll(currentTags, suggestedTags) == currentTags \o suggestedTags

\* Array.from(new Set([...currentTags, ...suggestedTags])): every tag
\* once, in the order of its first occurrence
Combined(currentTags, suggestedTags) ==
    LET all == currentTags \o suggestedTags
        first == {i \in 1..Len(all) : \A j \in 1..(i - 1) : all[j] # all[i]}
        nth(k) == CHOOSE i \in first : Cardinality({j \in first : j < i}) = k - 1
    IN  [k \in 1..Cardinality(first) |-> all[nth(k)]]

\* handleAiSuggestTags up to its await: notesApi.ai.suggestTags(note.content);
\* the call keeps the note and the onChange of the render it was made in
AskTags ==
    /\ Has(cnotes, activeNoteId)
    /\ Find(cnotes, activeNoteId).content # <<>>
    /\ Cardinality(inflight) < MaxPending
    /\ inflight' = inflight \cup
          {Authorized(Sent("tags", Me, ToBody(Find(cnotes, activeNoteId)),
                           Undefined, 0), token)}
    /\ UNCHANGED <<noteVars, aiVars, authVars, clientVars, arrived>>

\* handleAiSuggestTags after its await: onChange({ tags: combinedTags })
\* on the note that was active when the button was pressed
ApplyTags ==
    \E m \in inflight :
        /\ m.op = "tags" /\ m.phase = "answered"
        /\ inflight' = inflight \ {m}
        /\ IF Has(cnotes, m.body.id)
           THEN Rendered(Replaced(cnotes, m.body.id,
                            [Find(cnotes, m.body.id) EXCEPT
                                !.tags = Combined(m.body.tags, m.data)]),
                         m.body.id = activeNoteId)
           ELSE UNCHANGED <<cnotes, timers>>
        /\ UNCHANGED <<editorFrame, activeNoteId, lastSavedContentRef,
                       lastSavedTagsRef>>

(* ---------------------------- inputs ----------------------------------- *)

\* request bodies without their id: a note with every field set to something
\* the server must carry through, and a partial note
NoteBodies ==
    {Body(Undefined, <<>>, <<"b">>, <<>>,
          <<<<"a">>, <<QUOTE, BACKSLASH, ",">>, <<"a">>>>, "true", 9, 9),
     Body(Undefined, Undefined, <<"a">>, Undefined, UndefinedArray,
          "undefined", 0, 0)}

\* request bodies whose texts and pinned flags the searches tell apart
SearchBodies ==
    {Body(Undefined, <<"a">>, <<"a", " ", "b">>, DefaultCategory, <<>>,
          "true", 0, 0),
     Body(Undefined, <<"a">>, <<"a", QUOTE, "a", "b">>, DefaultCategory, <<>>,
          "false", 0, 0)}

\* the id of the row of a database file written before notes_fts existed
LegacyId == uuidv4(0)

\* the ids a request can name: every id handed out so far, the legacy id
NoteIds == {uuidv4(i) : i \in 0..uuids}

(* ---------------------------- AI adapter: inputs ---------------------- *)

\* a note long enough for every operation
LongContent ==
    <<"0", "1", "2", "3", "4", "5", "6", "7", "8", "9">>

\* the length the prompt of summarize asks the provider to keep to
SummaryLimit == 100

\* req.body.content of the AI routes: absent, empty, of nine characters, of
\* ten, of four characters inside white space, of five
Contents ==
    {Undefined, <<>>, SubSeq(LongContent, 1, 9), LongContent,
     <<" ", " ", "a", "b", "c", "d", " ", "\n">>,
     <<"a", "b", "c", "d", "e">>}

\* a primary provider that answers a tag list, one that answers more than
\* SummaryLimit characters, one that cannot be reached, a secondary provider
\* that answers, and no provider
ServiceEnvs ==
  LET
      \* a body of the primary provider whose completion is text
      Completion(text) ==
          Fetched("ok", "ok", Undefined, Data(Undefined, Undefined, <<text>>))
  IN
    {Env(TRUE, FALSE,
         Completion(<<" ", "a", ",", " ", "b", " ", "c", FULLWIDTH_COMMA,
                      ",", " ", ",", "d", " ">>),
         NoGenerated),
     Env(TRUE, FALSE, Completion([i \in 1..SummaryLimit + 1 |-> "x"]),
         NoGenerated),
     Env(TRUE, FALSE,
         Fetched("throws", "none", <<"f", "e", "t", "c", "h">>,
                 Data(Undefined, Undefined, <<>>)),
         NoGenerated),
     Env(FALSE, TRUE, NoFetched,
         Generated(FALSE, Undefined, <<"h", "i">>)),
     NoEnv}

(* ---------------------------- specifications --------------------------- *)

\* the state after the first db.exec of the schema script
Init ==
  LET
      \* the rows a database file holds before the server first creates notes_fts
      LegacyDatabases ==
          {{},
           {[id |-> LegacyId, user_id |-> <<"d", "1">>,
             title |-> <<"b">>, content |-> <<"a", " ", "b">>, rowid |-> 1,
             category |-> DefaultCategory, tags |-> JSONstringify(<<>>),
             pinned |-> 0, updated_at |-> 0, created_at |-> 0]}}
  IN
    /\ notes \in LegacyDatabases
    /\ notes_fts = Backfill(notes, {}, TRUE).fts
    /\ clock = 0
    /\ uuids = 0
    /\ up = TRUE
    /\ req = NoRequest
    /\ res = NoResponse
    /\ selected = <<>>
    /\ deleted = {}
    /\ aiReq = NoAiRequest
    /\ call = NoCall
    /\ answer = NoAnswer
    /\ ai_log = <<>>
    /\ writes = {}
    /\ rejections = {}
    /\ calls = 0
    /\ users = {}
    /\ inflight = {}
    /\ arrived = <<>>
    /\ token = NoToken
    /\ caught = NoError
    /\ cnotes = <<>>
    /\ activeNoteId = Null
    /\ lastSavedContentRef = Null
    /\ lastSavedTagsRef = NullArray
    /\ timers = {}
    /\ searchTerm = <<>>
    /\ debouncedSearchTerm = <<>>
    /\ handlers = {}
    /\ loading = TRUE
    /\ fetches = 0
    /\ shown = 0

Save == \E userId \in UserIds, body \in NoteBodies, id \in NoteIds \cup {Undefined} :
            /\ SaveNote(userId, [body EXCEPT !.id = id])
            /\ UNCHANGED netVars

Remove == \E userId \in UserIds, id \in NoteIds :
              RemoveNote(userId, id) /\ UNCHANGED netVars

List == \E userId \in UserIds : ListNotes(userId, Undefined) /\ UNCHANGED netVars

Next == Save \/ Remove \/ List \/ Restart \/ Tick

\* the note routes over a store that may predate the index, with restarts
Spec == Init /\ [][Next]_vars

\* a store that held a note before the server first created notes_fts
InitSearch == Init /\ notes # {}

SaveText == \E userId \in UserIds, body \in SearchBodies, id \in NoteIds \cup {Undefined} :
                /\ SaveNote(userId, [body EXCEPT !.id = id])
                /\ UNCHANGED netVars

Search ==
  LET
      \* the q of GET /api/notes
      Queries ==
          {Undefined, <<"a">>, <<"a", " ", "b">>, <<"b", " ", "a">>, <<"c">>, <<"d">>,
           <<QUOTE>>, <<QUOTE, QUOTE>>, <<"a", QUOTE>>, <<"a", QUOTE, "a">>,
           <<"a", NUL, "b">>}
  IN
          \E userId \in UserIds, q \in Queries :
              ListNotes(userId, q) /\ UNCHANGED netVars

\* the note routes under searches
SpecSearch == InitSearch /\ [][SaveText \/ Remove \/ Search]_vars

Ordered == \E userId \in UserIds, q \in {Undefined, <<"a">>} :
               ListNotes(userId, q) /\ UNCHANGED netVars

\* saves at different times, then lists and searches
SpecOrder == InitSearch /\ [][SaveText \/ Ordered \/ Tick]_vars

\* the AI adapter starts beside an empty store
InitAI == Init /\ notes = {}

Ask ==
  LET
      \* every configuration of the two providers with what they do when called
      Envs ==
        LET
            \* what the secondary provider can do: throw, answer, answer with no text
            SecondaryResponses ==
                {Generated(TRUE, <<"b", "l", "o", "c", "k", "e", "d">>, <<>>),
                 Generated(FALSE, Undefined, <<" ", "h", "i", " ">>),
                 Generated(FALSE, Undefined, <<>>)}

            \* what the primary provider can do: fetch() throws, response.json() throws,
            \* or a body arrives
            PrimaryResponses ==
              LET
                  \* response bodies of the primary provider: two with an error indicator
                  \* and a message, one whose error object has no message, a completion with
                  \* white space around it, a completion of white space only, a body without
                  \* choices, and a first choice without content
                  PrimaryBodies ==
                      {Data(<<"q", "u", "o", "t", "a">>, Undefined, <<>>),
                       Data(Undefined, <<"d", "e", "n", "i", "e", "d">>, <<>>),
                       Data(<<>>, Undefined, <<>>),
                       Data(Undefined, Undefined, <<<<" ", "o", "k", "\n">>>>),
                       Data(Undefined, Undefined, <<<<" ", " ">>>>),
                       Data(Undefined, Undefined, <<>>),
                       Data(Undefined, Undefined, <<Undefined>>)}
              IN
                {Fetched("throws", "none", <<"f", "e", "t", "c", "h">>, Data(Undefined, Undefined, <<>>)),
                 Fetched("ok", "throws", <<"j", "s", "o", "n">>, Data(Undefined, Undefined, <<>>))}
                \cup {Fetched("ok", "ok", Undefined, d) : d \in PrimaryBodies}
        IN
          {Env(TRUE, TRUE, p, s) : p \in PrimaryResponses, s \in SecondaryResponses}
          \cup {Env(TRUE, FALSE, p, NoGenerated) : p \in PrimaryResponses}
          \cup {Env(FALSE, TRUE, NoFetched, s) : s \in SecondaryResponses}
          \cup {NoEnv}
  IN
       \E env \in Envs, serialisable \in BOOLEAN :
           PostSummarize(LongContent, env, serialisable)

\* callAI under every configuration and provider behaviour, and its log
SpecCall == InitAI /\ [][Ask \/ AppendFile \/ UnhandledRejection]_vars

Summarize == \E content \in Contents, env \in ServiceEnvs :
                 PostSummarize(content, env, TRUE)

SuggestTags ==
  LET
      \* app.post('/api/ai/tags')
      PostTags(content, env, serialisable) ==
          AiRoute(AiRequest("tags", content, Undefined, NotGiven),
                  suggestTags(content, env), serialisable)
  IN
               \E content \in Contents, env \in ServiceEnvs :
                   PostTags(content, env, TRUE)

Chat ==
  LET
      \* req.body.question
      Questions == {Undefined, <<>>, <<"q", "?">>}

      \* req.body.history: absent, or the first n turns of a conversation
      Histories ==
        LET
            \* the i-th turn of a conversation
            Turn(i) ==
                Message(IF i % 2 = 1 THEN "user" ELSE "assistant",
                        <<Digit(i \div 10), Digit(i % 10)>>)

            \* the history argument of chat: an array of turns, or undefined
            Given(turns) == [given |-> TRUE, turns |-> turns]
        IN
          {NotGiven} \cup {Given([i \in 1..n |-> Turn(i)]) : n \in 0..MaxHistory}

      \* app.post('/api/ai/chat')
      PostChat(content, question, history, env, serialisable) ==
          AiRoute(AiRequest("chat", content, question, history),
                  chat(content, question, history, env), serialisable)
  IN
        \E content \in {<<>>, LongContent}, question \in Questions,
           history \in Histories, env \in {e \in ServiceEnvs : e.key} :
            PostChat(content, question, history, env, TRUE)

Format ==
  LET
      \* app.post('/api/ai/format')
      PostFormat(content, env, serialisable) ==
          AiRoute(AiRequest("format", content, Undefined, NotGiven),
                  format(content, env), serialisable)
  IN
          \E content \in Contents, env \in ServiceEnvs :
              PostFormat(content, env, TRUE)

\* the four operations of aiService behind their routes
SpecService == InitAI /\ [][Summarize \/ SuggestTags \/ Chat \/ Format]_vars

Race ==
  LET
      \* the payloads of saves of the note the store holds
      RacingBodies == {[b EXCEPT !.id = LegacyId] : b \in NoteBodies \cup SearchBodies}
  IN  \E userId \in UserIds, body \in RacingBodies : PostNote(userId, body)

\* saves of one stored note sent at the same time, arriving in any order
SpecRace == InitSearch /\ [][Race \/ Arrive]_vars

Revive == \E userId \in UserIds, body \in SearchBodies :
              PostNote(userId, [body EXCEPT !.id = LegacyId])

Dismiss ==
  LET
      \* notesApi.delete(id): DELETE /api/notes/:id
      DeleteRequest(userId, id) ==
          /\ inflight' = inflight \cup {Sent("delete", userId,
                                              [NoBody EXCEPT !.id = id], Undefined, 0)}
          /\ UNCHANGED <<noteVars, aiVars, authVars, clientVars, arrived>>
  IN  \E userId \in UserIds : DeleteRequest(userId, LegacyId)

\* a delete of the stored note in flight together with saves that carry its id
SpecRevive == InitSearch /\ [][Revive \/ Dismiss \/ Arrive \/ ArriveDelete]_vars

SignUp ==
  LET
      Passwords == {Undefined, <<"p">>, <<"q">>, NotAString}

      \* the names and passwords a registration may carry
      Usernames == {Undefined, <<>>, <<"a">>, <<"b">>, <<"A">>}

      \* app.post('/api/auth/register')
      Register(username, password) ==
        LET
            \* req.body of POST /api/auth/register
            Credentials(name, secret) ==
                [username |-> name, password |-> secret]

            \* error.message.includes(part)
            includes(message, part) ==
                \E i \in 1..(Len(message) - Len(part) + 1) :
                    SubSeq(message, i, i + Len(part) - 1) = part

            \* the error text of a registration without a name or a password:
            \* yong hu ming he mi ma bu neng wei kong
            CredentialsRequired ==
                <<"u", "s", "e", "r", "n", "a", "m", "e", " ", "a", "n", "d", " ", "p",
                  "a", "s", "s", "w", "o", "r", "d", " ", "r", "e", "q", "u", "i", "r",
                  "e", "d">>
        IN
          /\ up
          /\ uuids < MaxRegistrations
          /\ req' = [NoRequest EXCEPT !.op = "register",
                                      !.body = Credentials(username, password)]
          /\ IF ~Truthy(username) \/ ~Truthy(password)
             THEN /\ res' = Response(400, CredentialsRequired)
                  /\ UNCHANGED <<users, uuids>>
             ELSE IF password = NotAString
             THEN /\ res' = Response(500, RegisterFailed)
                  /\ UNCHANGED <<users, uuids>>
             ELSE LET r == InsertUser(users, uuidv4(uuids + 1), username,
                                      hash(password))
                  IN  /\ uuids' = uuids + 1
                      /\ users' = r.users
                      /\ res' = IF r.message = NoMessage THEN Response(200, <<>>)
                                ELSE IF includes(r.message, UniqueConstraintFailed)
                                THEN Response(400, UsernameExists)
                                ELSE Response(500, RegisterFailed)
          /\ UNCHANGED <<notes, notes_fts, clock, up, selected, deleted>>
          /\ UNCHANGED <<aiVars, netVars, clientVars>>
  IN
          \E username \in Usernames, password \in Passwords :
              Register(username, password)

\* registrations, of new names and of names already taken
SpecAuth == InitAI /\ [][SignUp]_vars

Call ==
  LET
      \* the calls of notesApi that send the token
      Apis == {"list", "save", "delete", "upload", "summarize", "tags", "chat",
               "format"}

      \* a call of notesApi up to its await fetch(...)
      CallApi(op) ==
          /\ Cardinality(inflight) < MaxPending
          /\ inflight' = inflight \cup
                 {Authorized(Sent(op, Undefined, NoBody, Undefined, 0), token)}
          /\ UNCHANGED <<noteVars, aiVars, authVars, clientVars, arrived>>
  IN  \E op \in Apis : CallApi(op)

\* the calls of notesApi with no token, a valid one and an expired one
SpecToken == InitAI /\ [][SignIn \/ Call \/ Authenticate \/ Resume \/ Tick]_vars

TypeSearch ==
  LET
      \* what the user types into the search box
      SearchTerms == {<<>>, <<"a">>, <<"c">>}

      \* setSearchTerm(term), then the effect on [searchTerm]: the cleanup of its
      \* last run clears the timeout that run set, and a new one is set
      setSearchTerm(term) ==
          /\ fetches > 0
          /\ term # searchTerm
          /\ searchTerm' = term
          /\ handlers' = (handlers \ {searchTerm}) \cup {term}
          /\ UNCHANGED <<noteVars, aiVars, authVars, netVars>>
          /\ UNCHANGED <<token, caught, cnotes, activeNoteId, lastSavedContentRef,
                         lastSavedTagsRef, timers, debouncedSearchTerm, loading,
                         fetches, shown>>
  IN  \E term \in SearchTerms : setSearchTerm(term)

\* the search box, its debounce, and the list fetches it starts
SpecFetch == InitSearch /\ [][Mount \/ TypeSearch \/ Debounced \/ ArriveList \/ fetchNotes]_vars

\* the client of Me after it signed in and fetchNotes showed the list
InitEdit ==
  LET
      \* the notes of Me the store holds when the client loads its list
      Library ==
          {[id |-> uuidv4(0), user_id |-> Me, title |-> <<"s">>,
            content |-> <<"a">>, rowid |-> 1, category |-> DefaultCategory,
            tags |-> JSONstringify(<<>>), pinned |-> 0, updated_at |-> 0,
            created_at |-> 0],
           [id |-> uuidv4(1), user_id |-> Me, title |-> <<"t">>,
            content |-> <<"b">>, rowid |-> 2, category |-> DefaultCategory,
            tags |-> JSONstringify(<<<<"t">>>>), pinned |-> 0, updated_at |-> 0,
            created_at |-> 0]}
  IN
    /\ notes = Library
    /\ notes_fts = Backfill(notes, {}, TRUE).fts
    /\ clock = 0
    /\ uuids = 1
    /\ up = TRUE
    /\ req = NoRequest
    /\ res = NoResponse
    /\ selected = <<>>
    /\ deleted = {}
    /\ aiReq = NoAiRequest
    /\ call = NoCall
    /\ answer = NoAnswer
    /\ ai_log = <<>>
    /\ writes = {}
    /\ rejections = {}
    /\ calls = 0
    /\ users = {[id |-> Me, username |-> <<"a">>, password |-> hash(<<"p">>)]}
    /\ inflight = {}
    /\ arrived = <<>>
    /\ token = Jwt(clock + TokenLife)
    /\ caught = NoError
    /\ cnotes \in {formattedNotes([i \in 1..Len(s) |-> s[i].n]) : s \in ListRows(Me)}
    /\ activeNoteId = Null
    /\ lastSavedContentRef = Null
    /\ lastSavedTagsRef = NullArray
    /\ timers = {}
    /\ searchTerm = <<>>
    /\ debouncedSearchTerm = <<>>
    /\ handlers = {}
    /\ loading = FALSE
    /\ fetches = 1
    /\ shown = 1

TagInputs == {<<"t">>, <<" ", "t">>, <<" ">>}

Type ==
  LET
      \* what the user types into the textarea, the title input and the tag input
      Drafts == {<<"a">>, <<"b">>}

      \* the textarea: onChange({ content })
      TypeContent(content) ==
          /\ Has(cnotes, activeNoteId)
          /\ handleUpdateLocalNote([Find(cnotes, activeNoteId)
                                       EXCEPT !.content = content])
  IN  \E content \in Drafts : TypeContent(content)

Title ==
  LET
      Titles == {<<"s">>, <<"t">>}

      \* the title input: onChange({ title }); no dependency of the autosave
      \* effect changes
      TypeTitle(title) ==
          /\ Has(cnotes, activeNoteId)
          /\ title # Find(cnotes, activeNoteId).title
          /\ Rendered(Replaced(cnotes, activeNoteId,
                               [Find(cnotes, activeNoteId) EXCEPT !.title = title]),
                      FALSE)
          /\ UNCHANGED <<editorFrame, inflight, activeNoteId, lastSavedContentRef,
                         lastSavedTagsRef>>
  IN  \E title \in Titles : TypeTitle(title)

AddTag ==
  LET
      \* handleAddTag: Enter in the tag input with a trimmed text that is not
      \* empty; a tag the note has already is not added again
      handleAddTag(tagInput) ==
          /\ Has(cnotes, activeNoteId)
          /\ trim(tagInput) # <<>>
          /\ LET note == Find(cnotes, activeNoteId)
                 newTag == trim(tagInput)
             IN  /\ \A i \in 1..Len(note.tags) : note.tags[i] # newTag
                 /\ handleUpdateLocalNote([note EXCEPT
                                              !.tags = Append(note.tags, newTag)])
  IN  \E tagInput \in TagInputs : handleAddTag(tagInput)

RemoveTag ==
  LET
      \* removeTag(tagToRemove): the X of a tag the note shows
      removeTag(tagToRemove) ==
        LET
            \* (note.tags || []).filter(t => t !== tagToRemove)
            filterOut(tags, removed) == SelectSeq(tags, LAMBDA t : t # removed)
        IN
          /\ Has(cnotes, activeNoteId)
          /\ LET note == Find(cnotes, activeNoteId)
             IN  /\ \E i \in 1..Len(note.tags) : note.tags[i] = tagToRemove
                 /\ handleUpdateLocalNote([note EXCEPT
                                              !.tags = filterOut(note.tags, tagToRemove)])
  IN  \E tagInput \in TagInputs : removeTag(tagInput)

Select ==
  LET
      \* handleSelectNote(id): a silent save of the note being left if it is
      \* dirty against the refs, then setActiveNoteId(id) and the effects of the
      \* next render
      handleSelectNote(id) ==
        LET
            TagsRef(changed, list, noteId) ==
                IF ~changed THEN lastSavedTagsRef
                ELSE IF ~Truthy(noteId) THEN NullArray
                ELSE IF Has(list, noteId) THEN Find(list, noteId).tags
                ELSE <<>>

            \* the effect on [activeNoteId], run when the id changed: the new base line
            ContentRef(changed, list, noteId) ==
                IF ~changed THEN lastSavedContentRef
                ELSE IF ~Truthy(noteId) THEN Null
                ELSE IF Has(list, noteId) /\ Find(list, noteId).content # <<>>
                THEN Find(list, noteId).content
                ELSE <<>>
        IN
          /\ id # activeNoteId
          /\ IF /\ Has(cnotes, activeNoteId)
                /\ Dirty(Find(cnotes, activeNoteId), lastSavedContentRef,
                         lastSavedTagsRef)
             THEN /\ Cardinality(inflight) < MaxPending
                  /\ inflight' = inflight \cup {SaveRequest(Find(cnotes, activeNoteId))}
             ELSE UNCHANGED inflight
          /\ activeNoteId' = id
          /\ lastSavedContentRef' = ContentRef(TRUE, cnotes, id)
          /\ lastSavedTagsRef' = TagsRef(TRUE, cnotes, id)
          /\ timers' = AutosaveEffect(TRUE, cnotes, id, lastSavedContentRef',
                                      lastSavedTagsRef')
          /\ UNCHANGED <<editorFrame, cnotes>>
  IN  \E i \in 1..Len(cnotes) : handleSelectNote(cnotes[i].id)

\* the editor: edits, note switches, autosaves and their responses
SpecEdit == InitEdit /\ [][Type \/ AddTag \/ RemoveTag \/ Select \/ Autosave \/ ArriveSave \/ handleSaveNote]_vars

\* the first note the user opens
Open == activeNoteId = Null /\ Select

\* one note open in the editor: edits while its saves are in flight
SpecFlight == InitEdit /\ [][Open \/ Type \/ Title \/ AddTag \/ RemoveTag \/ Autosave \/ ArriveSave \/ handleSaveNote]_vars

Suggest ==
  LET
      \* the lists POST /api/ai/tags may answer
      Suggestions == {<<>>, <<<<"t">>, <<"t">>>>, <<<<"u">>, <<"t">>, <<"u">>>>}

      \* POST /api/ai/tags answers 200 with the list suggestTags returned: the
      \* trimmed pieces of the provider's text, or [] when the provider failed
      AnswerTags(suggestedTags) ==
          \E m \in inflight :
              /\ m.op = "tags" /\ m.phase = "sent"
              /\ inflight' = (inflight \ {m})
                             \cup {Answered(m, Response(200, suggestedTags))}
              /\ UNCHANGED <<noteVars, aiVars, authVars, clientVars, arrived>>
  IN  \E suggestedTags \in Suggestions : AnswerTags(suggestedTags)

\* a save sent to the API with a tag twice
Import == PostNote(Me, Body(uuidv4(0), <<"s">>, <<"a">>, DefaultCategory,
                            <<<<"t">>, <<"t">>>>, "false", 0, 0))

\* the tag list of the editor under its three handlers, and the store
SpecTags == InitEdit /\ [][Open \/ AddTag \/ RemoveTag \/ AskTags \/ Suggest \/ ApplyTags \/ Import \/ Arrive]_vars

(* ---------------------------- properties ------------------------------- *)

\* C1: a save naming an id that has no row owned by the caller, also an id
\* another user owns, is answered 404 and leaves notes and notes_fts as they were
C1_SaveNotOwnedIsNotFound ==
    [][(/\ req'.op = "save"
        /\ SaveNote(req'.userId, req'.body)
        /\ Truthy(req'.body.id)
        /\ ~\E n \in notes : n.id = req'.body.id /\ n.user_id = req'.userId)
       => (res'.status = 404 /\ notes' = notes /\ notes_fts' = notes_fts)]_vars

\* C1 witness: a save was answered 404 for an id that another user owns
C1_Witness ==
    /\ req.op = "save"
    /\ res.status = 404
    /\ \E n \in notes : n.id = req.body.id /\ n.user_id # req.userId

\* C2: a delete of an id the caller does not own is answered 404 and leaves
\* notes and notes_fts, the owner's rows among them, as they were
C2_DeleteNotOwnedIsNotFound ==
    [][(/\ req'.op = "delete"
        /\ RemoveNote(req'.userId, req'.id)
        /\ ~\E n \in notes : n.id = req'.id /\ n.user_id = req'.userId)
       => (res'.status = 404 /\ notes' = notes /\ notes_fts' = notes_fts)]_vars

\* C2 witness: a delete was answered 404 and the owner's note and its index
\* row are there
C2_Witness ==
    /\ req.op = "delete"
    /\ res.status = 404
    /\ \E n \in notes : /\ n.id = req.id
                        /\ n.user_id # req.userId
                        /\ FtsRow(n) \in notes_fts

\* C3: every row GET /api/notes returns, with or without q, is owned by the
\* caller
C3_ListOnlyOwnNotes ==
    req.op = "list" =>
        \A i \in 1..Len(selected) : selected[i].user_id = req.userId

\* C3 witness: a search returned a note of the caller while a note of another
\* user matches the same query
C3_Witness ==
    /\ req.op = "list"
    /\ Truthy(req.q)
    /\ Len(selected) > 0
    /\ \E f \in notes_fts : /\ f.user_id # req.userId
                            /\ Fts5Match(f, Fts5Parse(safeQuery(req.q)))

\* C4: notes_fts holds exactly the projections of the rows of notes, one per
\* row and under the row's rowid, and no two rows of notes share a rowid
C4_IndexInLockstep ==
    /\ notes_fts = {FtsRow(n) : n \in notes}
    /\ \A n, m \in notes : n.rowid = m.rowid => n = m
    /\ \A n \in notes : Cardinality({f \in notes_fts : f.rowid = n.rowid}) = 1

\* C4 witness: after inserts, an update and a delete, a restart has rerun the
\* backfill over a store that holds notes
C4_Witness ==
    /\ ~up
    /\ notes # {}
    /\ deleted # {}
    /\ \E n \in notes : n.updated_at > n.created_at

\* a request field that is present was stored and returned as sent
Carried(sent, got) == sent = Undefined \/ got = sent

\* the note of GET /api/notes that carries the id the last save answered with
ListedAfterSave(P(_)) ==
    \A s \in ListRows(req.userId) :
        \E i \in 1..Len(s) :
            /\ formattedNote(s[i].n).id = res.data[1].id
            /\ P(formattedNote(s[i].n))

\* C5 as claimed: after a successful save, the caller's list holds the note
\* with title, content, category, tags and pinned as the request sent them
C5_SaveThenListEqualsPayload ==
    (req.op = "save" /\ res.status = 200) =>
        LET P(note) ==
              /\ Carried(req.body.title, note.title)
              /\ Carried(req.body.content, note.content)
              /\ Carried(req.body.category, note.category)
              /\ req.body.tags = UndefinedArray \/ note.tags = req.body.tags
              /\ req.body.pinned = "undefined" \/ note.pinned = (req.body.pinned = "true")
        IN  ListedAfterSave(P)

\* C5 as amended: the same, except that a create sent with the empty string
\* as category is stored and listed with the default category
C5_SaveThenListEqualsPayloadOrDefault ==
    (req.op = "save" /\ res.status = 200) =>
        LET P(note) ==
              /\ Carried(req.body.title, note.title)
              /\ Carried(req.body.content, note.content)
              /\ IF ~Truthy(req.body.id) /\ req.body.category = <<>>
                 THEN note.category = DefaultCategory
                 ELSE Carried(req.body.category, note.category)
              /\ req.body.tags = UndefinedArray \/ note.tags = req.body.tags
              /\ req.body.pinned = "undefined" \/ note.pinned = (req.body.pinned = "true")
        IN  ListedAfterSave(P)

\* C5 witness: an update that sent tags with a quote and a backslash, a tag
\* twice, pinned and an empty category was stored
C5_Witness ==
    /\ req.op = "save"
    /\ res.status = 200
    /\ Truthy(req.body.id)
    /\ Len(res.data[1].tags) = 3
    /\ res.data[1].pinned
    /\ res.data[1].category = <<>>

\* C6: a create stores an id never handed out before with created_at and
\* updated_at both the server's time; an update keeps id, owner and
\* created_at and sets updated_at to the server's time, whatever createdAt
\* and updatedAt the body carries
C6_ServerAssignedTimestamps ==
    [][(/\ req'.op = "save"
        /\ SaveNote(req'.userId, req'.body)
        /\ res'.status = 200)
       => LET row == selected'[1]
              note == res'.data[1]
          IN  /\ row \in notes'
              /\ note.id = row.id
              /\ note.createdAt = row.created_at
              /\ note.updatedAt = row.updated_at
              /\ row.updated_at = clock
              /\ IF Truthy(req'.body.id)
                 THEN \E old \in notes :
                        /\ old.id = req'.body.id
                        /\ row.id = old.id
                        /\ row.rowid = old.rowid
                        /\ row.user_id = old.user_id
                        /\ row.created_at = old.created_at
                 ELSE /\ row.id \notin NoteIds \cup deleted \cup {n.id : n \in notes}
                      /\ row.user_id = req'.userId
                      /\ row.created_at = clock]_vars

\* C6 witness: an update whose body carried createdAt and updatedAt was
\* stored with the older created_at and the server's updated_at
C6_Witness ==
    /\ req.op = "save"
    /\ res.status = 200
    /\ Truthy(req.body.id)
    /\ req.body.createdAt = 9
    /\ res.data[1].createdAt < res.data[1].updatedAt
    /\ res.data[1].updatedAt = clock

\* C7: an id that DELETE has removed has no row in notes and none in
\* notes_fts, and no list or search returns it
C7_DeletedStaysGone ==
    \A id \in deleted :
        /\ \A n \in notes : n.id # id
        /\ \A f \in notes_fts : f.id # id
        /\ req.op = "list" => \A i \in 1..Len(selected) : selected[i].id # id

\* C7 witness: after a delete, a search returned a note created since
C7_Witness ==
    /\ deleted # {}
    /\ req.op = "list"
    /\ Truthy(req.q)
    /\ Len(selected) > 0
    /\ uuids > 0

\* f.rank of the index row of note id under query q
RankOf(id, q) ==
    Fts5Rank(CHOOSE f \in notes_fts : f.id = id, Fts5Parse(safeQuery(q)))

\* C8: in a list no unpinned note precedes a pinned one and notes of equal
\* pinned come in non-increasing updatedAt; in a search no unpinned note
\* precedes a pinned one and notes of equal pinned come in rank order
C8_PinnedFirstThenRecencyOrRank ==
    (req.op = "list" /\ res.status = 200) =>
        \A i, j \in 1..Len(res.data) :
            i < j =>
                /\ res.data[j].pinned => res.data[i].pinned
                /\ res.data[i].pinned = res.data[j].pinned =>
                     IF Truthy(req.q)
                     THEN RankOf(res.data[i].id, req.q) <= RankOf(res.data[j].id, req.q)
                     ELSE res.data[i].updatedAt >= res.data[j].updatedAt

\* C8 witness: a search returned a pinned note ahead of an unpinned note of
\* better rank
C8_Witness ==
    /\ req.op = "list"
    /\ Truthy(req.q)
    /\ Len(res.data) >= 2
    /\ res.data[1].pinned
    /\ ~res.data[2].pinned
    /\ RankOf(res.data[1].id, req.q) > RankOf(res.data[2].id, req.q)

\* q occurs in text, character for character
Contains(text, q) ==
    \E i \in 1..(Len(text) - Len(q) + 1) : SubSeq(text, i, i + Len(q) - 1) = q

\* the words of q occur in text one after the other, the last one as the
\* beginning of a word
HasPhrase(text, q) ==
    /\ Tokenize(q) # <<>>
    /\ PhraseHits(Tokenize(text), Tokenize(q), TRUE) # {}

\* C9 as claimed: a search returns every note of the caller whose title or
\* content holds the query as a phrase, and returns nothing when the query
\* text occurs in no title and no content of the caller's notes
C9_SearchFindsPhraseAndOnlyText ==
    (req.op = "list" /\ Truthy(req.q)) =>
        LET own == {n \in notes : n.user_id = req.userId}
        IN  /\ \A n \in own :
                  (HasPhrase(n.title, req.q) \/ HasPhrase(n.content, req.q))
                  => \E i \in 1..Len(selected) : selected[i] = n
            /\ (\A n \in own : ~Contains(n.title, req.q) /\ ~Contains(n.content, req.q))
                  => selected = <<>>

\* C10 as claimed: for every non-empty q the MATCH term is a quote, q with
\* its quotes doubled, a quote and '*'; FTS5 reads it as the one phrase q
\* with the prefix marker, and the search is answered without a syntax error
C10_QuotedTermNeverFails ==
    (req.op = "list" /\ Truthy(req.q)) =>
        LET term == safeQuery(req.q)
        IN  /\ Head(term) = QUOTE
            /\ ScanString(Tail(term), <<>>) =
                  [closed |-> TRUE, text |-> req.q, rest |-> <<"*">>]
            /\ Fts5Parse(term) =
                  [ok |-> TRUE, phrases |-> <<[text |-> req.q, prefix |-> TRUE]>>]
            /\ res.status = 200

(* ---------------------------- AI adapter: properties ------------------ *)

\* the response p of the primary provider holds a completion in the expected
\* shape: a first choice with message content, and no error indicator
HasCompletion(p) ==
    /\ p.fetch = "ok" /\ p.json = "ok"
    /\ p.data.error = Undefined /\ ~Truthy(p.data.message)
    /\ p.data.choices # <<>> /\ p.data.choices[1] # Undefined

\* C11: whenever the primary provider's response holds a completion in the
\* expected shape, whatever its text, callAI returns that completion trimmed,
\* the provider logged is the primary one, and the secondary provider is not
\* called in that invocation.
C11_PrimaryCompletionIsReturned ==
    (call.invoked /\ call.key /\ HasCompletion(call.primary)) =>
        /\ call.secondaryCalls = 0
        /\ answer = Return(trim(call.primary.data.choices[1]), <<>>)
        /\ call.logData.provider = OpenAICompatible

\* the primary attempt fails: a network exception, an unparsable body, or a
\* body carrying an error indicator
PrimaryFailure(p) ==
    \/ p.fetch = "throws"
    \/ p.fetch = "ok" /\ p.json = "throws"
    \/ p.fetch = "ok" /\ p.json = "ok"
       /\ (p.data.error # Undefined \/ Truthy(p.data.message))

\* text t ends with text e
EndsWith(t, e) ==
    Len(t) >= Len(e) /\ SubSeq(t, Len(t) - Len(e) + 1, Len(t)) = e

\* C12: with both providers configured, every failure of the primary attempt
\* is recorded in the error list and followed by exactly one call of the
\* secondary provider; when that call succeeds, callAI returns its text
\* trimmed, logs the secondary provider and raises no error.
C12_PrimaryFailureFallsBack ==
    (call.invoked /\ call.key /\ call.model /\ PrimaryFailure(call.primary)) =>
        /\ Len(call.errors) >= 1
        /\ call.primary.thrown # Undefined
              => EndsWith(call.errors[1], call.primary.thrown)
        /\ call.secondaryCalls = 1
        /\ ~call.secondary.throws =>
              /\ answer = Return(trim(call.secondary.text), <<>>)
              /\ call.logData.provider = GeminiSDK

\* C13: when callAI obtains no result it fails with an error, not a crash,
\* whose message joins the messages of every provider attempted and failed;
\* the fixed "no provider configured" message is used only when neither
\* provider is configured; with the secondary provider alone configured and
\* throwing, the message holds that provider's error text.
C13_FailureMessage ==
    (call.invoked /\ call.thrown # Undefined) =>
        /\ answer = Throw(call.thrown)
        /\ up
        /\ call.errors # <<>> => call.thrown = join(call.errors, <<";", " ">>)
        /\ call.thrown = NotConfigured => ~call.key /\ ~call.model
        /\ (~call.key /\ call.model /\ call.secondary.throws)
              => EndsWith(call.thrown, call.secondary.thrown)

\* the entries LOG_FILE holds for the n-th invocation of callAI
Logged(log, n) == {i \in DOMAIN log : log[i].n = n}

\* C14 as claimed: every invocation of callAI appends exactly one log entry,
\* and the entry of a failed invocation, carrying the error text, is in the
\* log when the error is raised to the caller.
C14_OneEntryWrittenBeforeRaise ==
    /\ writes = {} => \A n \in 1..calls : Cardinality(Logged(ai_log, n)) = 1
    /\ (call.invoked /\ call.thrown # Undefined) =>
          \E i \in Logged(ai_log, calls) : ai_log[i].entry.error = call.thrown

\* C14: every invocation of callAI, ending in success or in failure, calls
\* writeLog exactly once before its caller has the outcome, with an entry
\* that carries the answer or the error text; nothing else starts a write,
\* and the log file gains at most one entry for an invocation, when the
\* append of that write settles.
C14_OneWriteStartedBeforeOutcome ==
    [][/\ calls' = calls + 1 =>
            /\ call'.invoked
            /\ ai_log' = ai_log
            /\ \E w \in writes' \ writes :
                  /\ writes' = writes \cup {w}
                  /\ w.n = calls'
                  /\ w.entry.error = call'.thrown
                  /\ w.entry.final_answer =
                        (IF call'.thrown = Undefined THEN call'.result
                         ELSE Undefined)
                  /\ answer'.kind \in {"return", "throw"}
       /\ calls' = calls => writes' \subseteq writes
       /\ ai_log' # ai_log =>
            \E w \in writes \ writes' :
                ai_log' = Append(ai_log, [n |-> w.n, entry |-> w.entry])
       /\ \A n \in 1..calls' :
            Cardinality(Logged(ai_log', n))
                + Cardinality({w \in writes' : w.n = n}) <= 1]_vars

\* a failed invocation whose error the caller has while the entry is not in
\* the log
C14_Witness ==
    /\ call.invoked /\ call.thrown # Undefined /\ answer = Throw(call.thrown)
    /\ Logged(ai_log, calls) = {}
    /\ \E w \in writes : w.n = calls /\ w.entry.error = call.thrown

\* C15: a failure while writing the log entry, in serialising it or in
\* appending it, never changes the outcome of callAI: the caller has the
\* result or the provider error it has when logging succeeds, and no error
\* from logging reaches the caller or the process.
C15_LoggingFailureIsContained ==
    /\ call.invoked =>
          answer = (IF call.thrown = Undefined THEN Return(call.result, <<>>)
                    ELSE Throw(call.thrown))
    /\ rejections = {}
    /\ up

\* the request r is one the operation's validation turns down: summarize
\* with content absent or shorter than 10 characters, format with content
\* absent or shorter than 5 characters once trimmed, chat without a question
InvalidInput(r) ==
    \/ r.route = "summarize" /\ (Falsy(r.content) \/ Len(r.content) < 10)
    \/ r.route = "format" /\ (Falsy(r.content) \/ Len(trim(r.content)) < 5)
    \/ r.route = "chat" /\ Falsy(r.question)

\* C16: validation comes before any provider activity: summarize, format and
\* chat with an invalid input fail with the validation error, call no
\* provider and start no log entry.
C16_ValidationBeforeProviders ==
    [][InvalidInput(aiReq') =>
          /\ answer'.kind = "throw"
          /\ answer'.text \in {TooShortToSummarize, TooShortToFormat, NoQuestion}
          /\ ~call'.invoked
          /\ call'.primaryCalls = 0 /\ call'.secondaryCalls = 0
          /\ calls' = calls /\ writes' = writes /\ ai_log' = ai_log]_vars

\* an invalid request turned down after an earlier call was logged
C16_Witness ==
    /\ InvalidInput(aiReq) /\ answer.kind = "throw" /\ ~call.invoked
    /\ aiReq.content # Undefined /\ aiReq.content # <<>>
    /\ calls > 0 /\ writes # {}

\* C17: for every content of at least 10 characters for which a provider
\* answers, summarize returns a summary of at most 100 characters, whatever
\* text the provider returned.
C17_SummaryWithinLimit ==
    (aiReq.route = "summarize" /\ answer.kind = "return") =>
        Len(answer.text) <= 100

\* the separators of a tag list: the half-width and the full-width comma
Commas == {",", FULLWIDTH_COMMA}

\* the pieces of text s between commas, trimmed, the empty ones left out, in
\* their order: a piece starts at the beginning of s or after a comma and
\* ends before the next comma or at the end of s
TrimmedPieces(s) ==
    LET starts == {1} \cup {i + 1 : i \in {j \in 1..Len(s) : s[j] \in Commas}}
        stop(a) == IF \E j \in a..Len(s) : s[j] \in Commas
                   THEN (CHOOSE j \in a..Len(s) :
                            s[j] \in Commas
                            /\ \A l \in a..(j - 1) : s[l] \notin Commas) - 1
                   ELSE Len(s)
        piece(a) == trim(SubSeq(s, a, stop(a)))
        kept == {a \in starts : piece(a) # <<>>}
        nth(i) == CHOOSE a \in kept : Cardinality({b \in kept : b <= a}) = i
    IN  [i \in 1..Cardinality(kept) |-> piece(nth(i))]

\* C18: suggestTags never surfaces an error: it returns the empty sequence
\* when content is absent and when callAI fails; when callAI succeeds it
\* returns the pieces of the output between half-width and full-width
\* commas, each trimmed, none of them empty.
C18_TagsNeverFail ==
    aiReq.route = "tags" =>
        /\ answer.kind = "return" /\ answer.status = 200
        /\ Falsy(aiReq.content) => ~call.invoked /\ answer.tags = <<>>
        /\ (call.invoked /\ call.thrown # Undefined) => answer.tags = <<>>
        /\ (call.invoked /\ call.thrown = Undefined) =>
              /\ answer.tags = TrimmedPieces(call.result)
              /\ \A i \in DOMAIN answer.tags :
                    /\ answer.tags[i] # <<>>
                    /\ answer.tags[i] = trim(answer.tags[i])
                    /\ \A j \in DOMAIN answer.tags[i] :
                          answer.tags[i][j] \notin Commas

\* a tag list with both commas, white space and empty pieces
C18_Witness ==
    /\ aiReq.route = "tags" /\ call.invoked /\ call.thrown = Undefined
    /\ \E i, j \in DOMAIN call.result :
          /\ call.result[i] = FULLWIDTH_COMMA
          /\ call.result[j] = "," /\ j = i + 1
    /\ Len(answer.tags) = 3

\* C19: for every history and every present question, the messages chat
\* hands to callAI are one system message embedding the note content (the
\* fixed placeholder when the content is empty), then the last
\* min(10, length of history) turns in their order, then one user message
\* with the question: never more than 12 messages, the question last.
C19_ChatWindow ==
    (aiReq.route = "chat" /\ ~Falsy(aiReq.question)) =>
        LET h == IF aiReq.history.given THEN aiReq.history.turns ELSE <<>>
            k == IF Len(h) < 10 THEN Len(h) ELSE 10
            m == call.messages
        IN  /\ call.invoked
            /\ Len(m) = k + 2 /\ Len(m) <= 12
            /\ m[1] = Message("system",
                              ChatHead
                              \o (IF Falsy(aiReq.content) THEN EmptyNote
                                  ELSE aiReq.content)
                              \o ChatTail)
            /\ \A i \in 1..k : m[i + 1] = h[Len(h) - k + i]
            /\ m[Len(m)] = Message("user", aiReq.question)

\* a chat whose history is longer than the window
C19_Witness ==
    /\ aiReq.route = "chat" /\ call.invoked
    /\ aiReq.history.given /\ Len(aiReq.history.turns) > 10
    /\ Len(call.messages) = 12

\* C20: when callAI fails, summarize, chat and format fail with that same
\* error, its message neither replaced nor wrapped, and suggestTags alone
\* turns the failure into a successful result.
C20_FailurePropagates ==
    (call.invoked /\ call.thrown # Undefined) =>
        IF aiReq.route = "tags" THEN answer.kind = "return"
        ELSE answer = Throw(call.thrown)

\* format whose provider could not be reached
C20_Witness ==
    /\ aiReq.route = "format" /\ call.invoked /\ call.thrown # Undefined
    /\ answer.kind = "throw" /\ answer.status = 500

(* ---------------------------- client: properties --------------------- *)

\* the successful saves of note id among the handled ones, by position
Applied(id) == {i \in 1..Len(arrived) :
                   arrived[i].body.id = id /\ arrived[i].status = 200}

\* the row of notes and the one row of notes_fts hold the fields of body
StoredAs(id, body) ==
    /\ \E n \in notes :
          /\ n.id = id
          /\ n.title = body.title
          /\ n.content = body.content
          /\ n.category = body.category
          /\ n.tags = JSONstringify(TagsOrEmpty(body.tags))
          /\ n.pinned = PinnedBit(body.pinned)
          /\ \A f \in notes_fts :
                f.id = id => f.rowid = n.rowid /\ f.title = body.title
                             /\ f.content = body.content
          /\ \E f \in notes_fts : f.id = id
    /\ Cardinality({n \in notes : n.id = id}) = 1
    /\ Cardinality({f \in notes_fts : f.id = id}) = 1

\* C21: when saves of one existing note are sent at the same time, each is
\* applied whole or not at all, and the stored note and its index row hold,
\* field for field, the payload of the save that reached the store last
\* among those applied, never a mixture of two payloads.
C21_LastArrivalWins ==
    \A id \in NoteIds :
        Applied(id) # {} => StoredAs(id, arrived[Max(Applied(id))].body)

\* two saves of the same note with different payloads were in flight
\* together, and both have been applied
C21_Witness ==
    /\ Len(arrived) = 2
    /\ inflight = {}
    /\ Applied(LegacyId) = {1, 2}
    /\ arrived[1].body.title # arrived[2].body.title
    /\ arrived[1].body.content # arrived[2].body.content

\* C28: once DELETE has removed a note, every save that carries its id,
\* whenever it was sent, is answered 404 and changes neither table, and the
\* note has no row in notes and none in notes_fts in any later state.
C28_DeletedIsNotRevived ==
    [][/\ \A id \in deleted' :
            /\ \A n \in notes' : n.id # id
            /\ \A f \in notes_fts' : f.id # id
       /\ Len(arrived') > Len(arrived) /\ req'.body.id \in deleted
            => /\ res'.status = 404
               /\ notes' = notes
               /\ notes_fts' = notes_fts]_vars

\* a save of the note sent before its delete was handled after it, and
\* another save of it is still in flight
C28_Witness ==
    /\ LegacyId \in deleted
    /\ arrived # <<>>
    /\ arrived[Len(arrived)].body.id = LegacyId
    /\ arrived[Len(arrived)].status = 404
    /\ arrived[Len(arrived)].userId = <<"d", "1">>
    /\ req.op = "save"
    /\ \E m \in inflight : m.op = "save" /\ m.body.id = LegacyId

\* the registration handled last named a user that has a row
Taken(username) == \E u \in users : u.username = username

\* C23: a registration whose INSERT violates the unique constraint on
\* username is answered with the username-exists error of status 400, not
\* with the generic register-failed error of status 500, and leaves users
\* as it was; no two rows of users ever hold the same username.
C23_DuplicateUsernameIsConflict ==
    [][/\ \A u \in users', v \in users' : u.username = v.username => u = v
       /\ (/\ req'.op = "register"
           /\ Truthy(req'.body.username)
           /\ Truthy(req'.body.password)
           /\ req'.body.password # NotAString
           /\ Taken(req'.body.username))
            => /\ res'.status = 400
               /\ res'.data = UsernameExists
               /\ res'.data # RegisterFailed
               /\ users' = users]_vars

\* a name was registered, and registering it again with another password
\* was refused; a second name has a row too
C23_Witness ==
    /\ req.op = "register"
    /\ res.status = 400
    /\ res.data = UsernameExists
    /\ \E u \in users : /\ u.username = req.body.username
                        /\ u.password # hash(req.body.password)
    /\ Cardinality(users) = 2

\* a call that carried the token was answered 401 or 403, and this step
\* is the client resuming it
Rejected(m) ==
    /\ m \in inflight
    /\ m \notin inflight'
    /\ m.phase = "answered"
    /\ Truthy(m.authorization)
    /\ m.status \in {401, 403}

\* C27: whichever call of notesApi carried the token (list, save, delete,
\* image upload, the four AI calls), a response of status 401 or 403 removes
\* the token from localStorage and the call throws the auth-expired error.
C27_RejectionClearsToken ==
    [][(\E m \in inflight : Rejected(m))
          => token' = NoToken /\ caught' = AuthExpired]_vars

\* this step issues a list fetch
Issues(m) ==
    m \notin inflight /\ m \in inflight' /\ m.op = "list" /\ m.phase = "sent"

\* C30: a list fetch is issued only for the search term as it stands when
\* its 500 ms timeout fires, every change of the term having cleared the
\* timeout before; once no fetch is in flight the displayed list is the
\* response to the fetch issued last, whatever the order of arrival; and
\* the response to an older fetch never replaces that to a newer one.
C30_LatestSearchWins ==
    [][/\ \A m \in inflight' : Issues(m) => m.q = Query(searchTerm')
       /\ Cardinality(handlers') <= 1
       /\ shown' >= shown
       /\ inflight' = {} /\ caught' = NoError => shown' = fetches']_vars

\* the row of notes with this id: what the server last persisted, which
\* is what the client last loaded or saved when no save is in flight
Persisted(id) == CHOOSE n \in notes : n.id = id

\* a save is on its way to the server or its response on its way back
SaveInFlight == \E m \in inflight : m.op = "save"

\* the note differs in content or tags from its persisted row
Modified(note) ==
    \/ note.content # Persisted(note.id).content
    \/ note.tags # JSONparse(Persisted(note.id).tags)

\* C26: while a note is active and no save is in flight, the refs hold the
\* content and tags of that note as last loaded or persisted, never those
\* of another note; so no timeout is pending for a note that is not
\* modified and one is pending for a note that is, also after the save of
\* the note left behind has completed.
C26_RefsFollowActiveNote ==
    Has(cnotes, activeNoteId) /\ ~SaveInFlight
        => /\ lastSavedContentRef = Persisted(activeNoteId).content
           /\ lastSavedTagsRef = JSONparse(Persisted(activeNoteId).tags)
           /\ \A t \in timers : Modified(t)
           /\ Modified(Find(cnotes, activeNoteId)) => timers # {}

\* this step applies the response m of a save
Applies(m) ==
    m \in inflight /\ m \notin inflight' /\ m.op = "save" /\ m.phase = "answered"

\* this step sends a save with the id, content and tags of note
Saves(note) ==
    \E m \in inflight' \ inflight :
        /\ m.op = "save" /\ m.phase = "sent"
        /\ m.body.id = note.id
        /\ m.body.content = note.content
        /\ m.body.tags = note.tags

\* C25: when the user selects another note while the active note differs
\* in content or tags from what was last saved of it, a save is sent with
\* the id, content and tags of the note being left; and the response to a
\* save replaces in the list the note the save was for and no other, so
\* never the note selected since.
C25_SwitchSavesPreviousNote ==
    [][/\ (/\ activeNoteId' # activeNoteId
           /\ Has(cnotes, activeNoteId)
           /\ ~SaveInFlight
           /\ Modified(Find(cnotes, activeNoteId)))
            => Saves(Find(cnotes, activeNoteId))
       /\ \A m \in inflight : Applies(m) =>
            /\ Len(cnotes') = Len(cnotes)
            /\ \A i \in 1..Len(cnotes) :
                 cnotes'[i] = IF cnotes[i].id = m.body.id /\ m.status = 200
                              THEN m.data[1] ELSE cnotes[i]]_vars

\* the active note's id, content or tags are not what they were
Changes ==
    \/ activeNoteId' # activeNoteId
    \/ Has(cnotes, activeNoteId) # Has(cnotes', activeNoteId)
    \/ /\ Has(cnotes, activeNoteId)
       /\ Has(cnotes', activeNoteId)
       /\ Timeout(Find(cnotes', activeNoteId)) # Timeout(Find(cnotes, activeNoteId))

\* this step is a timeout of the autosave effect firing and sending m
Autosaves(m) ==
    /\ m \in inflight' \ inflight
    /\ m.op = "save" /\ m.phase = "sent"
    /\ timers' # timers
    /\ activeNoteId' = activeNoteId

\* C24: at most one autosave timeout is pending; every change of the active
\* note's id, content or tags clears the pending one; the save a timeout
\* sends when it fires 1.5 s later carries the active note as it stands,
\* and that note differs in content or tags from what was last saved of
\* it: a note equal to its last-saved values is never autosaved.
C24_AutosaveOnlyWhenDirty ==
    [][/\ Cardinality(timers') <= 1
       /\ Changes => timers \cap timers' = {}
       /\ \A m \in inflight' : Autosaves(m) =>
            /\ m.body.id = activeNoteId
            /\ m.body.content = Find(cnotes, activeNoteId).content
            /\ m.body.tags = Find(cnotes, activeNoteId).tags
            /\ ~SaveInFlight => Modified(Find(cnotes, activeNoteId))]_vars

\* what the user sees of a note and can edit
Entered(note) == <<note.title, note.content, note.tags>>

\* C29: when the response to a save is applied to the list, the active
\* note keeps the title, content and tags it had just before, which are
\* the latest the user entered, also when they were entered after the
\* save was sent and so differ from the values it carried.
C29_EditsInFlightAreKept ==
    [][\A m \in inflight :
          Applies(m) /\ Has(cnotes, activeNoteId)
              => /\ Has(cnotes', activeNoteId)
                 /\ Entered(Find(cnotes', activeNoteId))
                        = Entered(Find(cnotes, activeNoteId))]_vars

\* no tag occurs twice in the list
DuplicateFree(tags) ==
    \A i \in 1..Len(tags), j \in 1..Len(tags) : tags[i] = tags[j] => i = j

\* C22: from a list of notes whose tag lists are duplicate-free, no
\* sequence of manual additions, removals and AI suggestions gives a note
\* of the client a tag twice; the store keeps the tag sequence of a save as
\* it was given, duplicates included.
C22_ClientTagsStayUnique ==
    [][/\ \A i \in 1..Len(cnotes') : DuplicateFree(cnotes'[i].tags)
       /\ Len(arrived') > Len(arrived) /\ res'.status = 200
            => \E n \in notes' :
                   /\ n.id = req'.body.id
                   /\ n.tags = JSONstringify(TagsOrEmpty(req'.body.tags))]_vars

\* an AI suggestion that named a tag twice and one the note had already
\* left the note with two tags, and the store holds a row with a tag twice
C22_Witness ==
    /\ \E i \in 1..Len(cnotes) : /\ Len(cnotes[i].tags) = 2
                                 /\ cnotes[i].id = activeNoteId
    /\ \E n \in notes : ~DuplicateFree(JSONparse(n.tags))

====
